---- MODULE Spec2Model ----
(***************************************************************************)
(* Phrase grouping, multi-pass scheduling and duplicate reduction of the   *)
(* PDFSEE scripts (MappingSlayer-Dev).                                     *)
(*                                                                         *)
(* Three grouping programs are modelled over the same word lists:          *)
(*   "gmt"  group_multiline_texts    (ARCHIVED/PDFSEE/enhanced_multiline_ocr.py) *)
(*   "ocr"  group_texts_into_phrases (PDFSEE/ocr_server.py)                *)
(*   "auto" the per-page pass loop of process_all_pdfs                     *)
(*          (ARCHIVED/PDFSEE/Automapper.py)                                *)
(* and deduplicate_texts (ARCHIVED/PDFSEE/run_multi_scan.py).              *)
(*                                                                         *)
(* Python lists are 0-based; the sequences here are 1-based, so index i of *)
(* the source is index i+1 here.  Texts are sequences of characters.       *)
(***************************************************************************)
EXTENDS Integers, Sequences, FiniteSets, TLC

VARIABLES
    prog,                    \* which program runs: "gmt", "ocr", "auto", "dedup"
    pc,                      \* position in the program
    input,                   \* the word list as passed in (parameter texts / page words)
    texts,                   \* the list the loops index: sorted(texts), or words
    y_tolerance_range,       \* <<upper, lower>> tolerance of the schedule
    x_tolerance,             \* horizontal tolerance (gmt, ocr)
    y_tolerance,             \* tolerance of the current pass
    lines,                   \* lines of the current pass
    used_indices,            \* used_indices / page_used_word_indices
    all_phrases,             \* phrases produced so far
    potential_phrases,       \* Automapper: sorted candidates of the pass
    cand,                    \* Automapper: next candidate to consider
    pass_used_word_indices,  \* Automapper: words claimed in this pass
    annotated_locations,     \* Automapper: location keys already annotated
    remaining_text,          \* Automapper: remaining/unmatched report
    dtexts,                  \* deduplicate_texts: parameter texts
    position_threshold,      \* deduplicate_texts parameter
    similarity_threshold,    \* deduplicate_texts parameter, <<num, den>>
    groups,                  \* deduplicate_texts: clusters (index lists)
    used,                    \* deduplicate_texts: clustered indices
    di,                      \* deduplicate_texts: outer loop index i
    deduplicated,            \* deduplicate_texts: result (index list)
    run,                     \* deduplicate_texts: 1 first call, 2 call on its own result
    ta,                      \* text_similarity: a string
    tb,                      \* text_similarity: another string
    sim_ab,                  \* text_similarity(ta, tb), <<>> before the call
    sim_ba,                  \* text_similarity(tb, ta), <<>> before the call
    joiner,                  \* identify_multiline_room_names: which script's version
    jinput,                  \* parameter phrases as passed in
    phrases,                 \* phrases = sorted(phrases, key=(x, y))
    vertical_threshold,      \* parameter
    horizontal_threshold,    \* parameter
    used_phrases,            \* indices of phrases already in a label
    ji,                      \* outer loop index i
    room_parts,              \* room_parts of every label built so far (index lists)
    multiline_rooms,         \* the labels built so far
    scan_outputs,            \* multi-scan script: the texts each scan extracts
    scan_count,              \* multi-scan script: scans run so far
    all_raw_texts,           \* multi-scan script: texts of all scans so far
    ltext,                   \* query_llm: the text argument
    max_retries,             \* query_llm: config.max_retries
    attempt,                 \* query_llm: the loop variable
    requests_sent,           \* query_llm: calls of requests.post so far
    sleeps,                  \* query_llm: calls of time.sleep so far
    outcome,                 \* query_llm: what the last request came back with
    lresult,                 \* query_llm: the returned dict
    raised,                  \* query_llm: the exception that left the function
    files,                   \* process_all_pdfs: free candidate texts of each file
    fi,                      \* process_all_pdfs: the file being processed
    ci,                      \* process_all_pdfs: the candidate being processed
    llm_cache,               \* process_all_pdfs: llm_cache
    queried,                 \* process_all_pdfs: texts query_llm was called with
    sign_log,                \* process_all_pdfs: text and sign_data of each candidate
    otexts,                  \* order of input: the list passed to the first call
    opermuted,               \* order of input: a permutation of it, passed to the second call
    othresholds,             \* order of input: <<position_threshold, similarity_threshold>>
    out_first,               \* order of input: deduplicate_texts(otexts), <<>> before the call
    out_second,              \* order of input: deduplicate_texts(opermuted), <<>> before the call
    ctext,                   \* room codes: the text of the lower phrase
    cversion,                \* room codes: the script whose keyword list is used
    is_code,                 \* room codes: is_room_code(ctext), FALSE before the call
    has_keyword,             \* room codes: a keyword occurs in ctext.upper(), FALSE before the call
    joined,                  \* room codes: room_parts of the column, <<>> before the call
    page_counts,             \* whole run: pdf_document.page_count of each file of the folder
    opened,                  \* whole run: 1 + the files the for loop has taken up
    page_num,                \* whole run: page_num of the page in work
    pass,                    \* whole run: passes begun on the page in work
    considered,              \* whole run: candidates considered in the pass in work
    candidate,               \* whole run: the candidate considered last, <<>> if none
    dot_number,              \* whole run: dot_number
    message_schedule,        \* whole run: message_schedule
    legend_data,             \* whole run: legend_data, colour -> count
    page_legend_data,        \* whole run: page_legend_data of the file in work
    dots,                    \* whole run: location key of every dot drawn, in order
    run_locations,           \* whole run: annotated_locations over all files
    page_used_word_indices,  \* whole run: page_used_word_indices
    run_pass_used,           \* whole run: pass_used_word_indices
    processed,               \* whole run: <<file, page_num>> of the pages gone through
    failed,                  \* whole run: <<file, page_num>> of the pages an exception came from
    unopened,                \* whole run: files fitz.open failed on
    saved                    \* whole run: files whose marked PDF was saved

vars == <<prog, pc, input, texts, y_tolerance_range, x_tolerance, y_tolerance,
          lines, used_indices, all_phrases, potential_phrases, cand,
          pass_used_word_indices, annotated_locations, remaining_text,
          dtexts, position_threshold, similarity_threshold, groups, used, di,
          deduplicated, run, ta, tb, sim_ab, sim_ba,
          joiner, jinput, phrases, vertical_threshold, horizontal_threshold,
          used_phrases, ji, room_parts, multiline_rooms,
          scan_outputs, scan_count, all_raw_texts,
          ltext, max_retries, attempt, requests_sent, sleeps, outcome, lresult, raised,
          files, fi, ci, llm_cache, queried, sign_log,
          otexts, opermuted, othresholds, out_first, out_second,
          ctext, cversion, is_code, has_keyword, joined,
          page_counts, opened, page_num, pass, considered, candidate, dot_number,
          message_schedule, legend_data, page_legend_data, dots, run_locations,
          page_used_word_indices, run_pass_used, processed, failed, unopened, saved>>

groupVars == <<input, texts, y_tolerance_range, x_tolerance, y_tolerance,
               lines, used_indices, all_phrases, potential_phrases, cand,
               pass_used_word_indices, annotated_locations, remaining_text>>

dedupVars == <<dtexts, position_threshold, similarity_threshold, groups, used,
               di, deduplicated, run>>

simVars == <<ta, tb, sim_ab, sim_ba>>

joinVars == <<joiner, jinput, phrases, vertical_threshold, horizontal_threshold,
              used_phrases, ji, room_parts, multiline_rooms>>

scanVars == <<scan_outputs, scan_count, all_raw_texts>>

llmVars == <<ltext, max_retries, attempt, requests_sent, sleeps, outcome, lresult, raised>>

pdfVars == <<files, fi, ci, llm_cache, queried, sign_log>>

orderVars == <<otexts, opermuted, othresholds, out_first, out_second>>

codeVars == <<ctext, cversion, is_code, has_keyword, joined>>

runVars == <<page_counts, opened, page_num, pass, considered, candidate, dot_number,
            message_schedule, legend_data, page_legend_data, dots, run_locations,
            page_used_word_indices, run_pass_used, processed, failed, unopened, saved>>

(***************************************************************************)
(* Bounds of the model.                                                    *)
(***************************************************************************)
MaxWords == 3
MaxItems == 3
MaxLen == 3
MaxTokens == 3
MaxPhrases == 3
MaxScans == 2
MaxScanWords == 2
MaxRetries == 3
MaxFiles == 2
MaxCandidates == 2
MaxPages == 2
MaxPasses == 2

(***************************************************************************)
(* Generic helpers: Python built-ins used by the code.                     *)
(***************************************************************************)
Abs(n) == IF n < 0 THEN -n ELSE n

Range(s) == {s[k] : k \in 1..Len(s)}

SetMin(S) == CHOOSE m \in S : \A n \in S : m <= n

SetMax(S) == CHOOSE m \in S : \A n \in S : m >= n

\* Tuple comparison of Python: a <= b, lexicographic, equal lengths.
RECURSIVE LexLE(_, _)
LexLE(a, b) ==
    IF Len(a) = 0 THEN TRUE
    ELSE a[1] < b[1] \/ (a[1] = b[1] /\ LexLE(Tail(a), Tail(b)))

\* sorted(..., key=...) / list.sort(key=...): the stable ascending order of
\* positions 1..n under key[p].
RECURSIVE SortedPositions(_, _)
SortedPositions(n, key) ==
    IF n = 0 THEN <<>>
    ELSE LET prev == SortedPositions(n - 1, key)
             before == SelectSeq(prev, LAMBDA p : LexLE(key[p], key[n]))
             after == SelectSeq(prev, LAMBDA p : ~LexLE(key[p], key[n]))
         IN before \o <<n>> \o after

\* ' '.join(list of texts)
RECURSIVE Join(_)
Join(ts) ==
    IF Len(ts) = 0 THEN <<>>
    ELSE IF Len(ts) = 1 THEN ts[1]
    ELSE ts[1] \o <<" ">> \o Join(Tail(ts))

RECURSIVE SumSeq(_)
SumSeq(s) == IF Len(s) = 0 THEN 0 ELSE s[1] + SumSeq(Tail(s))

(***************************************************************************)
(* Word boxes.  A word is [text, x, y, width, height, confidence]; for     *)
(* Automapper the PyMuPDF tuple (x0, y0, x1, y1, text, ...) is             *)
(* (x, y, x + width, y + height, text); its block/line/word numbers make   *)
(* every tuple of a page distinct, so a word is identified by its index.   *)
(***************************************************************************)
BOILER == <<"B", "O", "I", "L", "E", "R">>
RM == <<"R", "M">>

XVals == {10, 60}
YVals == {0, 6, 12}

Word(t, px, py) ==
    [text |-> t, x |-> px, y |-> py,
     width |-> IF t = BOILER THEN 30 ELSE 10,
     height |-> IF t = BOILER THEN 8 ELSE 2,
     confidence |-> IF t = BOILER THEN 90 ELSE 80]

WordPool == {Word(t, px, py) : t \in {BOILER, RM}, px \in XVals, py \in YVals}

\* Page words of Automapper: one text per column.
PagePool == {Word(BOILER, 10, py) : py \in YVals} \cup {Word(RM, 60, py) : py \in YVals}

\* A page whose six words chain into one line at the largest tolerance, so
\* that the line is longer than the longest candidate phrase.
LongPage ==
    <<Word(BOILER, 10, 0), Word(RM, 60, 0), Word(BOILER, 10, 6), Word(RM, 60, 6),
      Word(BOILER, 10, 12), Word(RM, 60, 12)>>

\* <<upper tolerance, lower tolerance, x_tolerance>> of a grouping call.
Configs == {<<10, 8, 50>>, <<6, 5, 20>>, <<5, 5, 30>>}

SeqsUpTo(S, n) == UNION {[1..k -> S] : k \in 0..n}

NoField == "absent"

(***************************************************************************)
(* Line Grouper.  scan is the sequence of indices of ws visited by the     *)
(* loop, in loop order.                                                    *)
(***************************************************************************)
RECURSIVE LineScan(_, _, _, _)
LineScan(scan, k, ws, tol) ==
    IF k = 0 THEN [lines |-> <<>>, current_line |-> <<>>]
    ELSE LET st == LineScan(scan, k - 1, ws, tol)
             i == scan[k]
             cl == st.current_line
         IN IF cl = <<>> THEN [st EXCEPT !.current_line = <<i>>]
            ELSE IF Abs(ws[i].y - ws[cl[Len(cl)]].y) <= tol
                 THEN [st EXCEPT !.current_line = Append(cl, i)]
                 ELSE [lines |-> Append(st.lines, cl), current_line |-> <<i>>]

LineGrouperMutAppendAlways(scan, ws, tol) ==
    \* bug: the last "if current_line:" is missing, current_line is always appended
    LET st == LineScan(scan, Len(scan), ws, tol)
    IN Append(st.lines, st.current_line)

LineGrouperMutFirst(scan, ws, tol) ==
    \* bug: compares against the first word of the line (fixed anchor)
    LET RECURSIVE Scan(_)
        Scan(k) ==
            IF k = 0 THEN [lines |-> <<>>, current_line |-> <<>>]
            ELSE LET st == Scan(k - 1)
                     i == scan[k]
                     cl == st.current_line
                 IN IF cl = <<>> THEN [st EXCEPT !.current_line = <<i>>]
                    ELSE IF Abs(ws[i].y - ws[cl[1]].y) <= tol
                         THEN [st EXCEPT !.current_line = Append(cl, i)]
                         ELSE [lines |-> Append(st.lines, cl), current_line |-> <<i>>]
        st == Scan(Len(scan))
    IN IF st.current_line # <<>> THEN Append(st.lines, st.current_line) ELSE st.lines

LineGrouper(scan, ws, tol) ==
    LET st == LineScan(scan, Len(scan), ws, tol)
    IN IF st.current_line # <<>> THEN Append(st.lines, st.current_line) ELSE st.lines

\* for i, text in enumerate(texts): if i in used_indices: continue
UnusedScan(n, usedSet) == SelectSeq([k \in 1..n |-> k], LAMBDA i : i \notin usedSet)

\* for text in texts / for word in words
FullScan(n) == [k \in 1..n |-> k]

\* sorted(texts, key=lambda t: (t['y'], t['x']))
SortByYX(ts) ==
    LET ord == SortedPositions(Len(ts), [p \in 1..Len(ts) |-> <<ts[p].y, ts[p].x>>])
    IN [k \in 1..Len(ts) |-> ts[ord[k]]]

\* line.sort(key=lambda item: item[1]['x'])
SortLineByX(line, ws) ==
    LET ord == SortedPositions(Len(line), [p \in 1..Len(line) |-> <<ws[line[p]].x>>])
    IN [k \in 1..Len(line) |-> line[ord[k]]]

(***************************************************************************)
(* Phrase Builder.  line is sorted by x; the result is the list of phrase  *)
(* groups (index lists).                                                   *)
(***************************************************************************)
XGap(prev, curr) == curr.x - (prev.x + prev.width)

RECURSIVE PhraseScan(_, _, _, _)
PhraseScan(line, k, ws, xtol) ==
    IF k = 1 THEN [phrase_groups |-> <<>>, current_phrase |-> <<line[1]>>]
    ELSE LET st == PhraseScan(line, k - 1, ws, xtol)
             cp == st.current_phrase
         IN IF XGap(ws[cp[Len(cp)]], ws[line[k]]) <= xtol
            THEN [st EXCEPT !.current_phrase = Append(cp, line[k])]
            ELSE [phrase_groups |-> Append(st.phrase_groups, cp),
                  current_phrase |-> <<line[k]>>]

PhraseGroupsMutStrict(line, ws, xtol) ==
    \* bug: x_gap < x_tolerance (exclusive boundary)
    LET RECURSIVE Scan(_)
        Scan(k) ==
            IF k = 1 THEN [phrase_groups |-> <<>>, current_phrase |-> <<line[1]>>]
            ELSE LET st == Scan(k - 1)
                     cp == st.current_phrase
                 IN IF XGap(ws[cp[Len(cp)]], ws[line[k]]) < xtol
                    THEN [st EXCEPT !.current_phrase = Append(cp, line[k])]
                    ELSE [phrase_groups |-> Append(st.phrase_groups, cp),
                          current_phrase |-> <<line[k]>>]
        st == Scan(Len(line))
    IN Append(st.phrase_groups, st.current_phrase)

\* line is non-empty
PhraseGroups(line, ws, xtol) ==
    LET st == PhraseScan(line, Len(line), ws, xtol)
    IN Append(st.phrase_groups, st.current_phrase)

\* phrase_entry of group_multiline_texts
PhraseEntry(group, ws, tol) ==
    LET ms == [k \in 1..Len(group) |-> ws[group[k]]]
        min_x == SetMin({m.x : m \in Range(ms)})
        min_y == SetMin({m.y : m \in Range(ms)})
        max_x == SetMax({m.x + m.width : m \in Range(ms)})
        max_y == SetMax({m.y + m.height : m \in Range(ms)})
    IN [text |-> Join([k \in 1..Len(ms) |-> ms[k].text]),
        confidence |-> <<SumSeq([k \in 1..Len(ms) |-> ms[k].confidence]), Len(ms)>>,
        x |-> min_x, y |-> min_y,
        width |-> max_x - min_x, height |-> max_y - min_y,
        word_count |-> Len(group), y_tolerance |-> tol, indices |-> group]

GmtBuildMutKeepSingles(ls, k, ws, xtol, tol, used0) ==
    \* bug: a group of one word is not reported and its word stays unused
    LET RECURSIVE Build(_)
        Build(n) ==
            IF n = 0 THEN [phrases |-> <<>>, used |-> used0]
            ELSE LET st == Build(n - 1)
                     line == SortLineByX(ls[n], ws)
                     unused_in_line == SelectSeq(line, LAMBDA i : i \notin st.used)
                 IN IF \A i \in Range(line) : i \in st.used THEN st
                    ELSE IF unused_in_line = <<>> THEN st
                    ELSE LET pg == SelectSeq(PhraseGroups(unused_in_line, ws, xtol),
                                             LAMBDA g : Len(g) > 1)
                         IN [phrases |-> st.phrases \o
                                         [g \in 1..Len(pg) |-> PhraseEntry(pg[g], ws, tol)],
                             used |-> st.used \cup UNION {Range(pg[g]) : g \in 1..Len(pg)}]
    IN Build(k)

\* "for line in lines:" of group_multiline_texts, after the first k lines.
RECURSIVE GmtBuild(_, _, _, _, _, _)
GmtBuild(ls, k, ws, xtol, tol, used0) ==
    IF k = 0 THEN [phrases |-> <<>>, used |-> used0]
    ELSE LET st == GmtBuild(ls, k - 1, ws, xtol, tol, used0)
             line == SortLineByX(ls[k], ws)
             unused_in_line == SelectSeq(line, LAMBDA i : i \notin st.used)
         IN IF \A i \in Range(line) : i \in st.used THEN st
            ELSE IF unused_in_line = <<>> THEN st
            ELSE LET pg == PhraseGroups(unused_in_line, ws, xtol)
                 IN [phrases |-> st.phrases \o
                                 [g \in 1..Len(pg) |-> PhraseEntry(pg[g], ws, tol)],
                     used |-> st.used \cup Range(unused_in_line)]

\* the phrases dict of group_texts_into_phrases (no box extent is reported);
\* indices records the members of the group.
OcrPhraseEntry(group, ws) ==
    LET ms == [k \in 1..Len(group) |-> ws[group[k]]]
    IN [text |-> Join([k \in 1..Len(ms) |-> ms[k].text]),
        confidence |-> <<SumSeq([k \in 1..Len(ms) |-> ms[k].confidence]), Len(ms)>>,
        x |-> ms[1].x, y |-> ms[1].y,
        width |-> NoField, height |-> NoField,
        word_count |-> Len(group), y_tolerance |-> NoField, indices |-> group]

RECURSIVE OcrBuild(_, _, _, _)
OcrBuild(ls, k, ws, xtol) ==
    IF k = 0 THEN <<>>
    ELSE LET line == SortLineByX(ls[k], ws)
             pg == PhraseGroups(line, ws, xtol)
         IN OcrBuild(ls, k - 1, ws, xtol) \o
            [g \in 1..Len(pg) |-> OcrPhraseEntry(pg[g], ws)]

SortLines(ls, ws) == [k \in 1..Len(ls) |-> SortLineByX(ls[k], ws)]

(***************************************************************************)
(* Automapper: candidates of one pass and the location key.                *)
(***************************************************************************)
AutoHi == 10
AutoLo == 1
MaxPhraseLength == 5

Min2(a, b) == IF a <= b THEN a ELSE b

\* bbox = fitz.Rect(line[i][0:4]); bbox |= fitz.Rect(line[j][0:4])
UnionBox(ms) ==
    [x0 |-> SetMin({m.x : m \in Range(ms)}),
     y0 |-> SetMin({m.y : m \in Range(ms)}),
     x1 |-> SetMax({m.x + m.width : m \in Range(ms)}),
     y1 |-> SetMax({m.y + m.height : m \in Range(ms)})]

\* the dict appended to potential_phrases for line[i : i + phrase_length]
Candidate(line, line_idx, i, phrase_length, ws) ==
    LET idx == [j \in 1..phrase_length |-> line[i + j - 1]]
        ms == [j \in 1..phrase_length |-> ws[idx[j]]]
    IN [phrase |-> Join([j \in 1..phrase_length |-> ms[j].text]),
        bbox |-> UnionBox(ms),
        word_indices |-> idx,
        length |-> phrase_length,
        line_index |-> line_idx,
        position_in_line |-> i]

LineCandidatesMutNoSingles(line, line_idx, phrase_length, ws) ==
    \* bug: range(2, max_phrase_length + 1), single words are no candidates
    LET RECURSIVE From2(_)
        From2(l) ==
            IF l <= 1 THEN <<>>
            ELSE From2(l - 1) \o
                 [i \in 1..(Len(line) - l + 1) |-> Candidate(line, line_idx, i, l, ws)]
    IN From2(phrase_length)

\* for phrase_length in range(1, max_phrase_length + 1): for i in range(...)
RECURSIVE LineCandidates(_, _, _, _)
LineCandidates(line, line_idx, phrase_length, ws) ==
    IF phrase_length = 0 THEN <<>>
    ELSE LineCandidates(line, line_idx, phrase_length - 1, ws) \o
         [i \in 1..(Len(line) - phrase_length + 1) |->
             Candidate(line, line_idx, i, phrase_length, ws)]

RECURSIVE AllCandidates(_, _, _)
AllCandidates(ls, k, ws) ==
    IF k = 0 THEN <<>>
    ELSE AllCandidates(ls, k - 1, ws) \o
         LineCandidates(ls[k], k, Min2(MaxPhraseLength, Len(ls[k])), ws)

PotentialPhrasesMutShortestFirst(ls, ws) ==
    \* bug: the sort key is (length, line_index, position_in_line)
    LET cs == AllCandidates(ls, Len(ls), ws)
        ord == SortedPositions(Len(cs),
                   [p \in 1..Len(cs) |->
                       <<cs[p].length, cs[p].line_index, cs[p].position_in_line>>])
    IN [k \in 1..Len(cs) |-> cs[ord[k]]]

\* potential_phrases.sort(key=(-length, line_index, position_in_line))
PotentialPhrases(ls, ws) ==
    LET cs == AllCandidates(ls, Len(ls), ws)
        ord == SortedPositions(Len(cs),
                   [p \in 1..Len(cs) |->
                       <<-cs[p].length, cs[p].line_index, cs[p].position_in_line>>])
    IN [k \in 1..Len(cs) |-> cs[ord[k]]]

\* location_key = f"{pdf_file}-{page_num}-{center_x:.2f}-{center_y:.2f}" with
\* center_x = (x0 + x1) / 2 and center_y = y0 - 1.05 * radius.  radius is
\* first_dot_radius, fixed before the first key is built, and a single page of
\* a single file is modelled, so on integer coordinates two keys are equal iff
\* x0 + x1 and y0 are.
LocationKey(bbox) == <<bbox.x0 + bbox.x1, bbox.y0>>

AnyInMutNever(word_indices, S) ==
    \* bug: the "already used" checks never fire
    FALSE

\* any(idx in S for idx in phrase_info['word_indices'])
AnyIn(word_indices, S) == \E k \in 1..Len(word_indices) : word_indices[k] \in S

\* what an accepted candidate is recorded as
AnnotatedPhrase(c, tol) ==
    [text |-> c.phrase, confidence |-> NoField,
     x |-> c.bbox.x0, y |-> c.bbox.y0,
     width |-> c.bbox.x1 - c.bbox.x0, height |-> c.bbox.y1 - c.bbox.y0,
     word_count |-> c.length, y_tolerance |-> tol, indices |-> c.word_indices]

\* sorted(S) for a set of integers
RECURSIVE SortedSeq(_)
SortedSeq(S) ==
    IF S = {} THEN <<>>
    ELSE LET m == SetMin(S) IN <<m>> \o SortedSeq(S \ {m})

\* words[idx][4].strip() is non-empty
StripNonEmpty(t) == \E k \in 1..Len(t) : t[k] # " "

\* unmatched_indices and the texts appended to remaining_text; each entry
\* keeps the index its text was read from.
RemainingReportMutAll(ws, usedSet) ==
    \* bug: reports every word, claimed or not
    LET un == SortedSeq(1..Len(ws))
    IN [k \in 1..Len(un) |-> <<un[k], ws[un[k]].text>>]

RemainingReport(ws, usedSet) ==
    LET un == SelectSeq(SortedSeq((1..Len(ws)) \ usedSet),
                        LAMBDA idx : StripNonEmpty(ws[idx].text))
    IN [k \in 1..Len(un) |-> <<un[k], ws[un[k]].text>>]

(***************************************************************************)
(* Specification of the grouping programs.                                 *)
(***************************************************************************)
AutoConfig == <<AutoHi, AutoLo, 0>>

OrderIdle ==
    /\ otexts = <<>>
    /\ opermuted = <<>>
    /\ othresholds = <<0, <<0, 1>>>>
    /\ out_first = <<>>
    /\ out_second = <<>>

CodeIdle ==
    /\ ctext = <<>>
    /\ cversion = ""
    /\ is_code = FALSE
    /\ has_keyword = FALSE
    /\ joined = <<>>

RunIdle ==
    /\ page_counts = <<>>
    /\ opened = 0
    /\ page_num = 0
    /\ pass = 0
    /\ considered = 0
    /\ candidate = <<>>
    /\ dot_number = 0
    /\ message_schedule = <<>>
    /\ legend_data = <<>>
    /\ page_legend_data = <<>>
    /\ dots = <<>>
    /\ run_locations = {}
    /\ page_used_word_indices = {}
    /\ run_pass_used = {}
    /\ processed = {}
    /\ failed = {}
    /\ unopened = {}
    /\ saved = {}

NoResponse == [error |-> "", choices |-> "", json |-> "", data |-> <<>>]

LlmIdle ==
    /\ ltext = ""
    /\ max_retries = 0
    /\ attempt = 0
    /\ requests_sent = 0
    /\ sleeps = 0
    /\ outcome = NoResponse
    /\ lresult = <<>>
    /\ raised = ""

PdfIdle ==
    /\ files = <<>>
    /\ fi = 0
    /\ ci = 0
    /\ llm_cache = <<>>
    /\ queried = <<>>
    /\ sign_log = <<>>

ScanIdle ==
    /\ scan_outputs = <<>>
    /\ scan_count = 0
    /\ all_raw_texts = <<>>

JoinIdle ==
    /\ joiner = ""
    /\ jinput = <<>>
    /\ phrases = <<>>
    /\ vertical_threshold = 0
    /\ horizontal_threshold = 0
    /\ used_phrases = {}
    /\ ji = 0
    /\ room_parts = <<>>
    /\ multiline_rooms = <<>>

SimIdle ==
    /\ ta = <<>>
    /\ tb = <<>>
    /\ sim_ab = <<>>
    /\ sim_ba = <<>>

DedupIdle ==
    /\ dtexts = <<>>
    /\ position_threshold = 0
    /\ similarity_threshold = <<0, 1>>
    /\ groups = <<>>
    /\ used = {}
    /\ di = 0
    /\ deduplicated = <<>>
    /\ run = 0

InitGroup ==
    \E p \in {"gmt", "ocr", "auto"} :
      \E cfg \in IF p = "auto" THEN {AutoConfig} ELSE Configs :
        \E inp \in IF p = "auto" THEN SeqsUpTo(PagePool, MaxWords) \cup {LongPage}
                   ELSE SeqsUpTo(WordPool, MaxWords) :
          /\ prog = p
          /\ pc = IF p = "auto" THEN "lines" ELSE "start"
          /\ input = inp
          /\ texts = inp
          /\ y_tolerance_range = <<cfg[1], cfg[2]>>
          /\ x_tolerance = cfg[3]
          /\ y_tolerance = cfg[1]
          /\ lines = <<>>
          /\ used_indices = {}
          /\ all_phrases = <<>>
          /\ potential_phrases = <<>>
          /\ cand = 0
          /\ pass_used_word_indices = {}
          /\ annotated_locations = {}
          /\ remaining_text = <<>>
          /\ DedupIdle
          /\ SimIdle
          /\ JoinIdle
          /\ ScanIdle
          /\ LlmIdle
          /\ PdfIdle
          /\ OrderIdle
          /\ CodeIdle
          /\ RunIdle

\* group_multiline_texts: texts = sorted(texts, ...), first pass of the range
GmtSort ==
    /\ prog = "gmt" /\ pc = "start"
    /\ texts' = SortByYX(input)
    /\ pc' = IF y_tolerance_range[1] >= y_tolerance_range[2] THEN "lines" ELSE "done"
    /\ UNCHANGED <<prog, input, y_tolerance_range, x_tolerance, y_tolerance, lines,
                   used_indices, all_phrases, potential_phrases, cand,
                   pass_used_word_indices, annotated_locations, remaining_text>>
    /\ UNCHANGED <<dedupVars, simVars, joinVars, scanVars, llmVars, pdfVars, orderVars,
                   codeVars, runVars>>

\* group_multiline_texts: line grouping of the current pass
GmtLines ==
    /\ prog = "gmt" /\ pc = "lines"
    /\ lines' = LineGrouper(UnusedScan(Len(texts), used_indices), texts, y_tolerance)
    /\ pc' = "phrases"
    /\ UNCHANGED <<prog, input, texts, y_tolerance_range, x_tolerance, y_tolerance,
                   used_indices, all_phrases, potential_phrases, cand,
                   pass_used_word_indices, annotated_locations, remaining_text>>
    /\ UNCHANGED <<dedupVars, simVars, joinVars, scanVars, llmVars, pdfVars, orderVars,
                   codeVars, runVars>>

\* group_multiline_texts: phrase building of the current pass, next tolerance
GmtPhrases ==
    /\ prog = "gmt" /\ pc = "phrases"
    /\ LET b == GmtBuild(lines, Len(lines), texts, x_tolerance, y_tolerance, used_indices)
       IN /\ all_phrases' = all_phrases \o b.phrases
          /\ used_indices' = b.used
    /\ lines' = SortLines(lines, texts)
    /\ IF y_tolerance - 1 >= y_tolerance_range[2]
       THEN y_tolerance' = y_tolerance - 1 /\ pc' = "lines"
       ELSE y_tolerance' = y_tolerance /\ pc' = "done"
    /\ UNCHANGED <<prog, input, texts, y_tolerance_range, x_tolerance,
                   potential_phrases, cand, pass_used_word_indices,
                   annotated_locations, remaining_text>>
    /\ UNCHANGED <<dedupVars, simVars, joinVars, scanVars, llmVars, pdfVars, orderVars,
                   codeVars, runVars>>

\* group_texts_into_phrases: empty check and sort
OcrSort ==
    /\ prog = "ocr" /\ pc = "start"
    /\ IF input = <<>>
       THEN pc' = "done" /\ texts' = texts
       ELSE pc' = "lines" /\ texts' = SortByYX(input)
    /\ UNCHANGED <<prog, input, y_tolerance_range, x_tolerance, y_tolerance, lines,
                   used_indices, all_phrases, potential_phrases, cand,
                   pass_used_word_indices, annotated_locations, remaining_text>>
    /\ UNCHANGED <<dedupVars, simVars, joinVars, scanVars, llmVars, pdfVars, orderVars,
                   codeVars, runVars>>

\* group_texts_into_phrases: line grouping
OcrLines ==
    /\ prog = "ocr" /\ pc = "lines"
    /\ lines' = LineGrouper(FullScan(Len(texts)), texts, y_tolerance)
    /\ pc' = "phrases"
    /\ UNCHANGED <<prog, input, texts, y_tolerance_range, x_tolerance, y_tolerance,
                   used_indices, all_phrases, potential_phrases, cand,
                   pass_used_word_indices, annotated_locations, remaining_text>>
    /\ UNCHANGED <<dedupVars, simVars, joinVars, scanVars, llmVars, pdfVars, orderVars,
                   codeVars, runVars>>

\* group_texts_into_phrases: phrases of every line
OcrPhrases ==
    /\ prog = "ocr" /\ pc = "phrases"
    /\ all_phrases' = OcrBuild(lines, Len(lines), texts, x_tolerance)
    /\ lines' = SortLines(lines, texts)
    /\ pc' = "done"
    /\ UNCHANGED <<prog, input, texts, y_tolerance_range, x_tolerance, y_tolerance,
                   used_indices, potential_phrases, cand, pass_used_word_indices,
                   annotated_locations, remaining_text>>
    /\ UNCHANGED <<dedupVars, simVars, joinVars, scanVars, llmVars, pdfVars, orderVars,
                   codeVars, runVars>>

\* process_all_pdfs: line grouping of the pass, over all words of the page
AmLines ==
    /\ prog = "auto" /\ pc = "lines"
    /\ lines' = LineGrouper(FullScan(Len(texts)), texts, y_tolerance)
    /\ pc' = "candidates"
    /\ UNCHANGED <<prog, input, texts, y_tolerance_range, x_tolerance, y_tolerance,
                   used_indices, all_phrases, potential_phrases, cand,
                   pass_used_word_indices, annotated_locations, remaining_text>>
    /\ UNCHANGED <<dedupVars, simVars, joinVars, scanVars, llmVars, pdfVars, orderVars,
                   codeVars, runVars>>

\* process_all_pdfs: potential phrases of the pass, sorted longest first
AmCandidates ==
    /\ prog = "auto" /\ pc = "candidates"
    /\ lines' = SortLines(lines, texts)
    /\ potential_phrases' = PotentialPhrases(SortLines(lines, texts), texts)
    /\ cand' = 1
    /\ pass_used_word_indices' = {}
    /\ pc' = "apply"
    /\ UNCHANGED <<prog, input, texts, y_tolerance_range, x_tolerance, y_tolerance,
                   used_indices, all_phrases, annotated_locations, remaining_text>>
    /\ UNCHANGED <<dedupVars, simVars, joinVars, scanVars, llmVars, pdfVars, orderVars,
                   codeVars, runVars>>

\* process_all_pdfs: a candidate with a word used in this or an earlier pass
AmSkipUsed ==
    /\ prog = "auto" /\ pc = "apply" /\ cand <= Len(potential_phrases)
    /\ \/ AnyIn(potential_phrases[cand].word_indices, used_indices)
       \/ AnyIn(potential_phrases[cand].word_indices, pass_used_word_indices)
    /\ cand' = cand + 1
    /\ UNCHANGED <<prog, pc, input, texts, y_tolerance_range, x_tolerance, y_tolerance,
                   lines, used_indices, all_phrases, potential_phrases,
                   pass_used_word_indices, annotated_locations, remaining_text>>
    /\ UNCHANGED <<dedupVars, simVars, joinVars, scanVars, llmVars, pdfVars, orderVars,
                   codeVars, runVars>>

\* process_all_pdfs: a free candidate whose location key is already annotated
AmSkipDuplicate ==
    /\ prog = "auto" /\ pc = "apply" /\ cand <= Len(potential_phrases)
    /\ ~AnyIn(potential_phrases[cand].word_indices, used_indices)
    /\ ~AnyIn(potential_phrases[cand].word_indices, pass_used_word_indices)
    /\ LocationKey(potential_phrases[cand].bbox) \in annotated_locations
    /\ cand' = cand + 1
    /\ UNCHANGED <<prog, pc, input, texts, y_tolerance_range, x_tolerance, y_tolerance,
                   lines, used_indices, all_phrases, potential_phrases,
                   pass_used_word_indices, annotated_locations, remaining_text>>
    /\ UNCHANGED <<dedupVars, simVars, joinVars, scanVars, llmVars, pdfVars, orderVars,
                   codeVars, runVars>>

\* process_all_pdfs: a free candidate is annotated and its words are claimed
AmAnnotate ==
    /\ prog = "auto" /\ pc = "apply" /\ cand <= Len(potential_phrases)
    /\ ~AnyIn(potential_phrases[cand].word_indices, used_indices)
    /\ ~AnyIn(potential_phrases[cand].word_indices, pass_used_word_indices)
    /\ LocationKey(potential_phrases[cand].bbox) \notin annotated_locations
    /\ all_phrases' = Append(all_phrases, AnnotatedPhrase(potential_phrases[cand], y_tolerance))
    /\ annotated_locations' =
           annotated_locations \cup {LocationKey(potential_phrases[cand].bbox)}
    /\ pass_used_word_indices' =
           pass_used_word_indices \cup Range(potential_phrases[cand].word_indices)
    /\ used_indices' = used_indices \cup Range(potential_phrases[cand].word_indices)
    /\ cand' = cand + 1
    /\ UNCHANGED <<prog, pc, input, texts, y_tolerance_range, x_tolerance, y_tolerance,
                   lines, potential_phrases, remaining_text>>
    /\ UNCHANGED <<dedupVars, simVars, joinVars, scanVars, llmVars, pdfVars, orderVars,
                   codeVars, runVars>>

\* process_all_pdfs: end of "for phrase_info in potential_phrases", next tolerance
AmEndPass ==
    /\ prog = "auto" /\ pc = "apply" /\ cand > Len(potential_phrases)
    /\ IF y_tolerance - 1 >= y_tolerance_range[2]
       THEN y_tolerance' = y_tolerance - 1 /\ pc' = "lines"
       ELSE y_tolerance' = y_tolerance /\ pc' = "remaining"
    /\ UNCHANGED <<prog, input, texts, y_tolerance_range, x_tolerance, lines,
                   used_indices, all_phrases, potential_phrases, cand,
                   pass_used_word_indices, annotated_locations, remaining_text>>
    /\ UNCHANGED <<dedupVars, simVars, joinVars, scanVars, llmVars, pdfVars, orderVars,
                   codeVars, runVars>>

\* process_all_pdfs: after all passes for the page, collect remaining text
AmRemaining ==
    /\ prog = "auto" /\ pc = "remaining"
    /\ remaining_text' = remaining_text \o RemainingReport(texts, used_indices)
    /\ pc' = "done"
    /\ UNCHANGED <<prog, input, texts, y_tolerance_range, x_tolerance, y_tolerance,
                   lines, used_indices, all_phrases, potential_phrases, cand,
                   pass_used_word_indices, annotated_locations>>
    /\ UNCHANGED <<dedupVars, simVars, joinVars, scanVars, llmVars, pdfVars, orderVars,
                   codeVars, runVars>>

NextGroup ==
    \/ GmtSort
    \/ GmtLines
    \/ GmtPhrases
    \/ OcrSort
    \/ OcrLines
    \/ OcrPhrases
    \/ AmLines
    \/ AmCandidates
    \/ AmSkipUsed
    \/ AmSkipDuplicate
    \/ AmAnnotate
    \/ AmEndPass
    \/ AmRemaining

SpecGroup == InitGroup /\ [][NextGroup]_vars

(***************************************************************************)
(* The functions as a whole, for comparing runs on different inputs.       *)
(***************************************************************************)
\* group_texts_into_phrases(texts, y_tolerance, x_tolerance)
OcrRun(inp, ytol, xtol) ==
    IF inp = <<>> THEN <<>>
    ELSE LET ts == SortByYX(inp)
             ls == LineGrouper(FullScan(Len(ts)), ts, ytol)
         IN OcrBuild(ls, Len(ls), ts, xtol)

\* phrase_entry of group_multiline_texts_fast
FastPhraseEntry(group, ws) ==
    LET ms == [k \in 1..Len(group) |-> ws[group[k]]]
        min_x == SetMin({m.x : m \in Range(ms)})
        min_y == SetMin({m.y : m \in Range(ms)})
        max_x == SetMax({m.x + m.width : m \in Range(ms)})
        max_y == SetMax({m.y + m.height : m \in Range(ms)})
    IN [text |-> Join([k \in 1..Len(ms) |-> ms[k].text]),
        confidence |-> <<SumSeq([k \in 1..Len(ms) |-> ms[k].confidence]), Len(ms)>>,
        x |-> min_x, y |-> min_y,
        width |-> max_x - min_x, height |-> max_y - min_y,
        word_count |-> Len(group)]

\* "for line in lines:" of group_multiline_texts_fast, after the first k lines
RECURSIVE FastBuild(_, _, _, _)
FastBuild(ls, k, ws, xtol) ==
    IF k = 0 THEN <<>>
    ELSE LET line == SortLineByX(ls[k], ws)
             pg == PhraseGroups(line, ws, xtol)
         IN FastBuild(ls, k - 1, ws, xtol) \o
            [g \in 1..Len(pg) |-> FastPhraseEntry(pg[g], ws)]

\* group_multiline_texts_fast(texts, y_tolerance, x_tolerance)
FastRun(inp, ytol, xtol) ==
    LET ts == SortByYX(inp)
        ls == LineGrouper(FullScan(Len(ts)), ts, ytol)
    IN FastBuild(ls, Len(ls), ts, xtol)

\* the passes tol, tol - 1, .., lo of group_multiline_texts on the sorted list ts
RECURSIVE GmtPasses(_, _, _, _, _)
GmtPasses(ts, tol, lo, xtol, used0) ==
    IF tol < lo THEN <<>>
    ELSE LET ls == LineGrouper(UnusedScan(Len(ts), used0), ts, tol)
             b == GmtBuild(ls, Len(ls), ts, xtol, tol, used0)
         IN b.phrases \o GmtPasses(ts, tol - 1, lo, xtol, b.used)

\* group_multiline_texts(texts, y_tolerance_range, x_tolerance)
GmtRun(inp, range, xtol) == GmtPasses(SortByYX(inp), range[1], range[2], xtol, {})

(***************************************************************************)
(* Vocabulary of the properties.                                           *)
(***************************************************************************)
MultiPass == prog \in {"gmt", "auto"}

Members(ph) == Range(ph.indices)

PhrasesOf(i) == {a \in 1..Len(all_phrases) : i \in Members(all_phrases[a])}

Reported == {remaining_text[k][1] : k \in 1..Len(remaining_text)}

RECURSIVE Flatten(_)
Flatten(ls) == IF Len(ls) = 0 THEN <<>> ELSE ls[1] \o Flatten(Tail(ls))

\* the sequence the line-grouping loop of the running program visits
Scanned ==
    IF prog = "gmt"
    THEN SelectSeq([k \in 1..Len(texts) |-> k], LAMBDA i : i \notin used_indices)
    ELSE [k \in 1..Len(texts) |-> k]

\* lines holds the output of the line grouper, not yet sorted by x
LinesFresh == (prog \in {"gmt", "ocr"} /\ pc = "phrases") \/ (prog = "auto" /\ pc = "candidates")

\* number of the line holding the k-th scanned word
RECURSIVE LineNo(_, _)
LineNo(ls, k) == IF k <= Len(ls[1]) THEN 1 ELSE 1 + LineNo(Tail(ls), k - Len(ls[1]))

Perms(q) ==
    {[k \in 1..Len(q) |-> q[f[k]]] :
        f \in {g \in [1..Len(q) -> 1..Len(q)] : \A a, b \in 1..Len(q) : g[a] = g[b] => a = b}}

PhraseTexts(ps) == [k \in 1..Len(ps) |-> ps[k].text]

(***************************************************************************)
(* C1.  In a multi-pass run no word index is a member of two produced      *)
(* phrases: the member sets of the phrases produced over all passes are    *)
(* pairwise disjoint, and no phrase lists an index twice.                  *)
(***************************************************************************)
C1_PhrasesDisjoint ==
    MultiPass =>
        /\ \A a, b \in 1..Len(all_phrases) :
               a # b => Members(all_phrases[a]) \cap Members(all_phrases[b]) = {}
        /\ \A a \in 1..Len(all_phrases) :
               Cardinality(Members(all_phrases[a])) = Len(all_phrases[a].indices)

\* a run of several passes finished with a multi-word phrase and another phrase
C1_Witness ==
    /\ MultiPass /\ pc = "done"
    /\ y_tolerance < y_tolerance_range[1]
    /\ \E a, b \in 1..Len(all_phrases) :
           a # b /\ Len(all_phrases[a].indices) >= 2

(***************************************************************************)
(* C2.  After the full multi-pass run over a page every word index is      *)
(* either a member of exactly one produced phrase or listed in the         *)
(* remaining report, never both and never neither.                         *)
(***************************************************************************)
C2_Coverage ==
    (MultiPass /\ pc = "done") =>
        \A i \in 1..Len(texts) :
            \/ Cardinality(PhrasesOf(i)) = 1 /\ i \notin Reported
            \/ Cardinality(PhrasesOf(i)) = 0 /\ i \in Reported

\* a finished page with a claimed word and a reported word
C2_Witness ==
    /\ prog = "auto" /\ pc = "done"
    /\ \E i, j \in 1..Len(texts) : PhrasesOf(i) # {} /\ j \in Reported

(***************************************************************************)
(* C3.  Original statement: two tokens that are never merged with another  *)
(* token at any tolerance are both unclaimed after the full schedule and   *)
(* both appear in the remaining-text report.                               *)
(***************************************************************************)
NeverMerged(i) == \A a \in PhrasesOf(i) : Len(all_phrases[a].indices) = 1

C3_Original ==
    (MultiPass /\ pc = "done") =>
        \A i, j \in 1..Len(texts) :
            (i # j /\ NeverMerged(i) /\ NeverMerged(j)) =>
                /\ i \notin used_indices /\ j \notin used_indices
                /\ i \in Reported /\ j \in Reported

(***************************************************************************)
(* C3, amended.  A token that is never merged with another token is, after *)
(* the full schedule, claimed as a single-word phrase of its own, produced *)
(* in the first (largest-tolerance) pass, and is not reported as           *)
(* remaining; only in Automapper, when the dot location of its one-word    *)
(* phrase is already annotated, it stays unclaimed and is reported.        *)
(***************************************************************************)
OwnBox(i) == UnionBox(<<texts[i]>>)

C3_SinglesClaimed ==
    (MultiPass /\ pc = "done") =>
        \A i \in 1..Len(texts) :
            NeverMerged(i) =>
                \/ /\ \E a \in 1..Len(all_phrases) :
                          /\ all_phrases[a].indices = <<i>>
                          /\ all_phrases[a].y_tolerance = y_tolerance_range[1]
                   /\ i \in used_indices
                   /\ i \notin Reported
                \/ /\ prog = "auto"
                   /\ LocationKey(OwnBox(i)) \in annotated_locations
                   /\ i \notin used_indices
                   /\ i \in Reported

\* two tokens never merged with anything, both claimed as one-word phrases
C3_Witness ==
    /\ MultiPass /\ pc = "done"
    /\ \E i, j \in 1..Len(texts) :
           /\ i # j /\ NeverMerged(i) /\ NeverMerged(j)
           /\ i \in used_indices /\ j \in used_indices

(***************************************************************************)
(* C4.  Line Grouper: in one scan, a word joins the current line iff the   *)
(* absolute difference between its y and the y of the last word of the     *)
(* current line (the word scanned just before it) is <= the tolerance;     *)
(* otherwise it starts a new line.  Lines are emitted in scan order and    *)
(* every scanned word lands in exactly one line.  In gmt and ocr the scan  *)
(* runs over the (y, x)-ordered list.                                      *)
(***************************************************************************)
C4_LineGrouper ==
    LinesFresh =>
        /\ Flatten(lines) = Scanned
        /\ \A l \in 1..Len(lines) : lines[l] # <<>>
        /\ \A k \in 1..(Len(Scanned) - 1) :
               (LineNo(lines, k) = LineNo(lines, k + 1))
                   <=> (Abs(texts[Scanned[k + 1]].y - texts[Scanned[k]].y) <= y_tolerance)
        /\ prog \in {"gmt", "ocr"} =>
               \A k \in 1..(Len(texts) - 1) :
                   LexLE(<<texts[k].y, texts[k].x>>, <<texts[k + 1].y, texts[k + 1].x>>)

\* a chained line: its last word is further than the tolerance from its first
C4_Witness ==
    /\ LinesFresh
    /\ \E l \in 1..Len(lines) :
           /\ Len(lines[l]) = 3
           /\ Abs(texts[lines[l][3]].y - texts[lines[l][1]].y) > y_tolerance

(***************************************************************************)
(* C5.  Phrase Builder of group_multiline_texts: in a line sorted by x,    *)
(* neighbouring words are in the same phrase iff the left edge of the      *)
(* second minus the right edge (x + width) of the first is <= x_tolerance; *)
(* a gap equal to the tolerance merges.  BOILER at x = 10 and RM at x = 60 *)
(* on one line with tolerance 50 give the single phrase "BOILER RM".       *)
(***************************************************************************)
SamePhrase(i, j) == \E a \in 1..Len(all_phrases) : {i, j} \subseteq Members(all_phrases[a])

\* lines holds the x-sorted lines of the pass group_multiline_texts just built
GmtPassBuilt == prog = "gmt" /\ pc \in {"lines", "done"} /\ all_phrases # <<>>

C5_PhraseBuilder ==
    /\ GmtPassBuilt =>
           \A l \in 1..Len(lines) :
               \A k \in 1..(Len(lines[l]) - 1) :
                   /\ texts[lines[l][k]].x <= texts[lines[l][k + 1]].x
                   /\ SamePhrase(lines[l][k], lines[l][k + 1])
                          <=> (XGap(texts[lines[l][k]], texts[lines[l][k + 1]]) <= x_tolerance)
    /\ (prog = "gmt" /\ pc = "done" /\ x_tolerance = 50
        /\ input = <<Word(BOILER, 10, 0), Word(RM, 60, 0)>>) =>
           PhraseTexts(all_phrases) = <<BOILER \o <<" ">> \o RM>>

\* a line holding a pair merged at a gap equal to the tolerance
C5_Witness ==
    /\ GmtPassBuilt
    /\ \E l \in 1..Len(lines) :
           \E k \in 1..(Len(lines[l]) - 1) :
               /\ XGap(texts[lines[l][k]], texts[lines[l][k + 1]]) = x_tolerance
               /\ SamePhrase(lines[l][k], lines[l][k + 1])

(***************************************************************************)
(* C6.  Phrase Builder order preservation: every phrase text is the        *)
(* space-join of its member texts in ascending x order, and the phrase     *)
(* texts do not depend on the order of the words in the input array.       *)
(***************************************************************************)
C6_OrderIndependent ==
    (prog \in {"gmt", "ocr"} /\ pc = "done") =>
        /\ \A a \in 1..Len(all_phrases) :
               LET ix == all_phrases[a].indices
               IN /\ all_phrases[a].text = Join([k \in 1..Len(ix) |-> texts[ix[k]].text])
                  /\ \A k \in 1..(Len(ix) - 1) : texts[ix[k]].x <= texts[ix[k + 1]].x
        /\ \A q \in Perms(input) :
               PhraseTexts(all_phrases) =
                   PhraseTexts(IF prog = "gmt"
                               THEN GmtRun(q, y_tolerance_range, x_tolerance)
                               ELSE OcrRun(q, y_tolerance, x_tolerance))

(***************************************************************************)
(* C7.  Every produced phrase's box is the minimal axis-aligned box of its *)
(* member words: x = min member x, y = min member y, x + width = max       *)
(* member right edge, y + height = max member bottom edge;                 *)
(* group_texts_into_phrases reports the position only, and its position    *)
(* is the minimal corner as well.                                          *)
(***************************************************************************)
C7_MinimalBox ==
    \A a \in 1..Len(all_phrases) :
        LET ph == all_phrases[a]
            ms == {texts[i] : i \in Members(ph)}
        IN /\ ph.x = SetMin({m.x : m \in ms})
           /\ ph.y = SetMin({m.y : m \in ms})
           /\ prog # "ocr" =>
                  /\ ph.x + ph.width = SetMax({m.x + m.width : m \in ms})
                  /\ ph.y + ph.height = SetMax({m.y + m.height : m \in ms})

(***************************************************************************)
(* C8.  Multi-Pass Scheduler: the passes run in strictly descending        *)
(* tolerance order, once for every integer from the upper to the lower     *)
(* bound, and in each pass line grouping and phrase building take as input *)
(* only the words not claimed by an earlier pass.                          *)
(***************************************************************************)
C8_Scheduler ==
    MultiPass =>
        /\ y_tolerance \in y_tolerance_range[2]..y_tolerance_range[1]
        /\ pc = "done" => y_tolerance = y_tolerance_range[2]
        /\ \A a, b \in 1..Len(all_phrases) :
               a < b => all_phrases[a].y_tolerance >= all_phrases[b].y_tolerance
        /\ LinesFresh => Range(Flatten(lines)) \cap used_indices = {}

(***************************************************************************)
(* Duplicate Reducer: text_similarity and deduplicate_texts.               *)
(* An item is [text, x, y, confidence]; groups and the result hold the     *)
(* indices of the items (the dicts themselves in the source).  A           *)
(* similarity is the fraction <<numerator, denominator>>.                  *)
(***************************************************************************)
AB == <<"A", "B">>
ABC == <<"A", "B", "C">>
ABD == <<"A", "B", "D">>

\* text1 in text2
IsSubstring(t1, t2) ==
    \E off \in 0..(Len(t2) - Len(t1)) : \A k \in 1..Len(t1) : t2[off + k] = t1[k]

Max2(a, b) == IF a >= b THEN a ELSE b

CommonCountMutDistinct(text1, text2) ==
    \* bug: counts the distinct characters the two strings share
    Cardinality(Range(text1) \cap Range(text2))

\* sum(1 for c in text1 if c in text2): one per character of text1, in order
RECURSIVE CommonCount(_, _)
CommonCount(text1, text2) ==
    IF Len(text1) = 0 THEN 0
    ELSE (IF IsSubstring(<<Head(text1)>>, text2) THEN 1 ELSE 0)
             + CommonCount(Tail(text1), text2)

text_similarityMutNoExact(text1, text2) ==
    \* bug: the test "text1 == text2" is missing
    IF IsSubstring(text1, text2) \/ IsSubstring(text2, text1) THEN <<4, 5>>
    ELSE LET common == CommonCount(text1, text2)
             max_len == Max2(Len(text1), Len(text2))
         IN IF max_len > 0 THEN <<common, max_len>> ELSE <<0, 1>>

text_similarityMutOneWay(text1, text2) ==
    \* bug: only "text1 in text2" is tested
    IF text1 = text2 THEN <<1, 1>>
    ELSE IF IsSubstring(text1, text2) THEN <<4, 5>>
    ELSE LET common == CommonCount(text1, text2)
             max_len == Max2(Len(text1), Len(text2))
         IN IF max_len > 0 THEN <<common, max_len>> ELSE <<0, 1>>

text_similarity(text1, text2) ==
    IF text1 = text2 THEN <<1, 1>>
    ELSE IF IsSubstring(text1, text2) \/ IsSubstring(text2, text1) THEN <<4, 5>>
    ELSE LET common == CommonCount(text1, text2)
             max_len == Max2(Len(text1), Len(text2))
         IN IF max_len > 0 THEN <<common, max_len>> ELSE <<0, 1>>

\* a >= b for fractions with positive denominators
FracGE(a, b) == a[1] * b[2] >= b[1] * a[2]

\* math.sqrt(dx**2 + dy**2) < position_threshold
Near(t1, t2, pt) ==
    /\ pt > 0
    /\ (t1.x - t2.x) * (t1.x - t2.x) + (t1.y - t2.y) * (t1.y - t2.y) < pt * pt

QualifiesMutNegated(t1, t2, pt, st) ==
    \* bug: "dist < -position_threshold", never true
    /\ pt < 0
    /\ (t1.x - t2.x) * (t1.x - t2.x) + (t1.y - t2.y) * (t1.y - t2.y) < pt * pt
    /\ FracGE(text_similarity(t1.text, t2.text), st)

QualifiesMutInclusive(t1, t2, pt, st) ==
    \* bug: dist <= position_threshold
    /\ (t1.x - t2.x) * (t1.x - t2.x) + (t1.y - t2.y) * (t1.y - t2.y) <= pt * pt
    /\ FracGE(text_similarity(t1.text, t2.text), st)

QualifiesMutStrictSim(t1, t2, pt, st) ==
    \* bug: sim > similarity_threshold
    /\ Near(t1, t2, pt)
    /\ ~FracGE(st, text_similarity(t1.text, t2.text))

\* the two tests of the inner loop, text1 being the seed
Qualifies(t1, t2, pt, st) ==
    /\ Near(t1, t2, pt)
    /\ FracGE(text_similarity(t1.text, t2.text), st)

SeedGroupMutChain(ts, i, usedSet, pt, st) ==
    \* bug: an item is tested against every member of the group so far
    LET RECURSIVE ChainScan(_, _)
        ChainScan(j, group) ==
            IF j > Len(ts) THEN group
            ELSE IF /\ j \notin usedSet
                    /\ j \notin Range(group)
                    /\ \E m \in Range(group) :
                           /\ Near(ts[m], ts[j], pt)
                           /\ FracGE(text_similarity(ts[m].text, ts[j].text), st)
                 THEN ChainScan(j + 1, Append(group, j))
                 ELSE ChainScan(j + 1, group)
    IN ChainScan(1, <<i>>)

SeedGroupMutBreak(ts, i, usedSet, pt, st) ==
    \* bug: the inner loop stops after the first item it appends
    LET q == SelectSeq([k \in 1..Len(ts) |-> k],
                       LAMBDA j : j \notin (usedSet \cup {i}) /\ Qualifies(ts[i], ts[j], pt, st))
    IN <<i>> \o (IF Len(q) = 0 THEN <<>> ELSE <<q[1]>>)

\* group = [text1] + every text2 not yet used that qualifies, in list order
SeedGroup(ts, i, usedSet, pt, st) ==
    <<i>> \o SelectSeq([k \in 1..Len(ts) |-> k],
                       LAMBDA j : j \notin (usedSet \cup {i}) /\ Qualifies(ts[i], ts[j], pt, st))

BestMutConfidenceOnly(ts, group) ==
    \* bug: key=lambda t: t['confidence']
    group[CHOOSE k \in 1..Len(group) :
              /\ \A m \in 1..Len(group) : ts[group[m]].confidence <= ts[group[k]].confidence
              /\ \A m \in 1..(k - 1) : ts[group[m]].confidence < ts[group[k]].confidence]

\* max(group, key=lambda t: (t['confidence'], len(t['text']))): the first maximum
Best(ts, group) ==
    LET key(m) == <<ts[group[m]].confidence, Len(ts[group[m]].text)>>
    IN group[CHOOSE k \in 1..Len(group) :
                 /\ \A m \in 1..Len(group) : LexLE(key(m), key(k))
                 /\ \A m \in 1..(k - 1) : key(m) # key(k)]

ItemPool ==
    {[text |-> t, x |-> ps[1], y |-> ps[2], confidence |-> c] :
        t \in {AB, ABC, ABD}, ps \in {<<0, 0>>, <<9, 12>>}, c \in {92, 96}}

\* <<position_threshold, similarity_threshold>>
Thresholds == {<<15, <<7, 10>>>>, <<16, <<7, 10>>>>, <<16, <<1, 1>>>>}

\* example_texts of deduplication_demo.py; x and y in tenths of a pixel
DemoItem(t, px, py, c) == [text |-> t, x |-> px, y |-> py, confidence |-> c]

example_texts ==
    <<DemoItem(Join(<<BOILER, RM>>), 26495, 1893, 96),
      DemoItem(Join(<<BOILER, RM>>), 26502, 1898, 92),
      DemoItem(Join(<<BOILER, RM>>), 26498, 1895, 94),
      DemoItem(BOILER, 26495, 1893, 88),
      DemoItem(RM, 26800, 1893, 85),
      DemoItem(Join(<<BOILER, <<"R", "N">>>>), 26495, 1893, 75),
      DemoItem(Join(<<<<"B", "0", "I", "L", "E", "R">>, RM>>), 26495, 1893, 70),
      DemoItem(Join(<<<<"M", "E", "C", "H">>, RM>>), 23545, 1897, 88)>>

\* the default thresholds (15 pixels, 0.7), the distance in tenths of a pixel
DemoThresholds == <<150, <<7, 10>>>>

\* calls of deduplicate_texts: <<thresholds, texts>>
DedupCalls ==
    (Thresholds \X SeqsUpTo(ItemPool, MaxItems))
        \cup {<<DemoThresholds, SubSeq(example_texts, 1, k)>> : k \in {2, 3, 8}}

GroupIdle ==
    /\ input = <<>>
    /\ texts = <<>>
    /\ y_tolerance_range = <<0, 0>>
    /\ x_tolerance = 0
    /\ y_tolerance = 0
    /\ lines = <<>>
    /\ used_indices = {}
    /\ all_phrases = <<>>
    /\ potential_phrases = <<>>
    /\ cand = 0
    /\ pass_used_word_indices = {}
    /\ annotated_locations = {}
    /\ remaining_text = <<>>

InitDedup ==
    \E call \in DedupCalls :
        /\ prog = "dedup"
        /\ pc = "group"
        /\ dtexts = call[2]
        /\ position_threshold = call[1][1]
        /\ similarity_threshold = call[1][2]
        /\ groups = <<>>
        /\ used = {}
        /\ di = 1
        /\ deduplicated = <<>>
        /\ run = 1
        /\ GroupIdle
        /\ SimIdle
        /\ JoinIdle
        /\ ScanIdle
        /\ LlmIdle
        /\ PdfIdle
        /\ OrderIdle
        /\ CodeIdle
        /\ RunIdle

\* deduplicate_texts: "if i in used: continue"
DdSkip ==
    /\ prog = "dedup" /\ pc = "group" /\ di <= Len(dtexts)
    /\ di \in used
    /\ di' = di + 1
    /\ UNCHANGED <<prog, pc, dtexts, position_threshold, similarity_threshold, groups,
                   used, deduplicated, run>>
    /\ UNCHANGED <<groupVars, simVars, joinVars, scanVars, llmVars, pdfVars, orderVars,
                   codeVars, runVars>>

\* deduplicate_texts: item i seeds a group and absorbs the qualifying items
DdSeed ==
    /\ prog = "dedup" /\ pc = "group" /\ di <= Len(dtexts)
    /\ di \notin used
    /\ LET group == SeedGroup(dtexts, di, used, position_threshold, similarity_threshold)
       IN /\ groups' = Append(groups, group)
          /\ used' = used \cup Range(group)
    /\ di' = di + 1
    /\ UNCHANGED <<prog, pc, dtexts, position_threshold, similarity_threshold,
                   deduplicated, run>>
    /\ UNCHANGED <<groupVars, simVars, joinVars, scanVars, llmVars, pdfVars, orderVars,
                   codeVars, runVars>>

\* deduplicate_texts: select best from each group, return
DdSelect ==
    /\ prog = "dedup" /\ pc = "group" /\ di > Len(dtexts)
    /\ deduplicated' = [g \in 1..Len(groups) |-> Best(dtexts, groups[g])]
    /\ pc' = "done"
    /\ UNCHANGED <<prog, dtexts, position_threshold, similarity_threshold, groups,
                   used, di, run>>
    /\ UNCHANGED <<groupVars, simVars, joinVars, scanVars, llmVars, pdfVars, orderVars,
                   codeVars, runVars>>

\* deduplicate_texts called again on the list it returned, same thresholds
DdRerun ==
    /\ prog = "dedup" /\ pc = "done" /\ run = 1
    /\ dtexts' = [k \in 1..Len(deduplicated) |-> dtexts[deduplicated[k]]]
    /\ groups' = <<>>
    /\ used' = {}
    /\ di' = 1
    /\ deduplicated' = <<>>
    /\ run' = 2
    /\ pc' = "group"
    /\ UNCHANGED <<prog, position_threshold, similarity_threshold>>
    /\ UNCHANGED <<groupVars, simVars, joinVars, scanVars, llmVars, pdfVars, orderVars,
                   codeVars, runVars>>

NextDedup ==
    \/ DdSkip
    \/ DdSeed
    \/ DdSelect
    \/ DdRerun

SpecDedup == InitDedup /\ [][NextDedup]_vars

ClusterOf(i) == CHOOSE g \in 1..Len(groups) : i \in Range(groups[g])

Earlier(g) == UNION {Range(groups[h]) : h \in 1..(g - 1)}

DedupDone == prog = "dedup" /\ pc = "done"

(***************************************************************************)
(* C9.  Original statement: the clusters are such that two items are in    *)
(* the same cluster iff their distance is < position_threshold and the     *)
(* similarity of their texts is >= similarity_threshold.                   *)
(***************************************************************************)
C9_PairwiseIff ==
    DedupDone =>
        \A i, j \in 1..Len(dtexts) :
            i # j =>
                ((ClusterOf(i) = ClusterOf(j))
                    <=> Qualifies(dtexts[i], dtexts[j], position_threshold,
                                  similarity_threshold))

(***************************************************************************)
(* C9, amended.  deduplicate_texts partitions its input into clusters,     *)
(* each item in exactly one; the seed of a cluster is the first item of    *)
(* the input in no earlier cluster, and another item is in the cluster iff *)
(* it is in no earlier cluster, its distance to the seed is                *)
(* < position_threshold and text_similarity(seed text, its text) is        *)
(* >= similarity_threshold.  Two non-seed members need not satisfy the     *)
(* condition with each other.                                              *)
(***************************************************************************)
C9_SeedClusters ==
    DedupDone =>
        /\ \A i \in 1..Len(dtexts) :
               Cardinality({g \in 1..Len(groups) : i \in Range(groups[g])}) = 1
        /\ \A g \in 1..Len(groups) :
               LET seed == groups[g][1]
               IN /\ seed \notin Earlier(g)
                  /\ \A j \in 1..(seed - 1) : j \in Earlier(g)
                  /\ \A j \in (1..Len(dtexts)) \ {seed} :
                         (j \in Range(groups[g]))
                             <=> /\ j \notin Earlier(g)
                                 /\ Near(dtexts[seed], dtexts[j], position_threshold)
                                 /\ FracGE(text_similarity(dtexts[seed].text, dtexts[j].text),
                                           similarity_threshold)

\* a cluster with two members that do not satisfy the condition with each other
C9_Witness ==
    /\ DedupDone
    /\ \E i, j \in 1..Len(dtexts) :
           /\ i # j /\ ClusterOf(i) = ClusterOf(j)
           /\ ~Qualifies(dtexts[i], dtexts[j], position_threshold, similarity_threshold)
           /\ ~Qualifies(dtexts[j], dtexts[i], position_threshold, similarity_threshold)

(***************************************************************************)
(* C10.  After duplicate reduction exactly one representative is output    *)
(* per cluster; it is a member of the cluster, and no member of the        *)
(* cluster has a strictly greater (confidence, text length) pair.          *)
(***************************************************************************)
C10_Representative ==
    DedupDone =>
        /\ Len(deduplicated) = Len(groups)
        /\ \A g \in 1..Len(groups) :
               /\ deduplicated[g] \in Range(groups[g])
               /\ \A m \in Range(groups[g]) :
                      /\ dtexts[m].confidence <= dtexts[deduplicated[g]].confidence
                      /\ dtexts[m].confidence = dtexts[deduplicated[g]].confidence
                             => Len(dtexts[m].text) <= Len(dtexts[deduplicated[g]].text)

\* the representative wins on text length alone and is not the seed
C10_Witness ==
    /\ DedupDone
    /\ \E g \in 1..Len(groups) :
           /\ deduplicated[g] # groups[g][1]
           /\ dtexts[groups[g][1]].confidence = dtexts[deduplicated[g]].confidence
           /\ Len(dtexts[groups[g][1]].text) < Len(dtexts[deduplicated[g]].text)

(***************************************************************************)
(* text_similarity on its own: every pair of strings over a small          *)
(* alphabet, the function called on (ta, tb) and then on (tb, ta).         *)
(***************************************************************************)
Alphabet == {"A", "B", "C"}

Strings == SeqsUpTo(Alphabet, MaxLen)

InitSim ==
    \E a \in Strings :
      \E b \in Strings :
        /\ prog = "sim"
        /\ pc = "call"
        /\ ta = a
        /\ tb = b
        /\ sim_ab = <<>>
        /\ sim_ba = <<>>
        /\ GroupIdle
        /\ DedupIdle
        /\ JoinIdle
        /\ ScanIdle
        /\ LlmIdle
        /\ PdfIdle
        /\ OrderIdle
        /\ CodeIdle
        /\ RunIdle

SimCall ==
    /\ prog = "sim" /\ pc = "call"
    /\ sim_ab' = text_similarity(ta, tb)
    /\ pc' = "swapped"
    /\ UNCHANGED <<prog, ta, tb, sim_ba>>
    /\ UNCHANGED <<groupVars, dedupVars, joinVars, scanVars, llmVars, pdfVars,
                   orderVars, codeVars, runVars>>

SimCallSwapped ==
    /\ prog = "sim" /\ pc = "swapped"
    /\ sim_ba' = text_similarity(tb, ta)
    /\ pc' = "done"
    /\ UNCHANGED <<prog, ta, tb, sim_ab>>
    /\ UNCHANGED <<groupVars, dedupVars, joinVars, scanVars, llmVars, pdfVars,
                   orderVars, codeVars, runVars>>

NextSim ==
    \/ SimCall
    \/ SimCallSwapped

SpecSim == InitSim /\ [][NextSim]_vars

SimDone == prog = "sim" /\ pc = "done"

\* equality of two fractions with positive denominators
FracEq(a, b) == a[1] * b[2] = b[1] * a[2]

Contains(a, b) ==
    \E off \in 0..(Len(b) - Len(a)) : SubSeq(b, off + 1, off + Len(a)) = a

(***************************************************************************)
(* C12.  Original statement: text_similarity(a, a) = 1.0 for every         *)
(* non-empty a; when a = b both orders give 1.0; and the two orders give   *)
(* different values only when a substring relation holds in one direction  *)
(* and not in the other.                                                   *)
(***************************************************************************)
C12_SymmetryButSubstring ==
    SimDone =>
        /\ ta = tb => FracEq(sim_ab, <<1, 1>>) /\ FracEq(sim_ba, <<1, 1>>)
        /\ ~FracEq(sim_ab, sim_ba) => (Contains(ta, tb) # Contains(tb, ta))

(***************************************************************************)
(* C12, amended.  text_similarity(a, a) = 1.0 for every a; when a = b both *)
(* orders give 1.0; when one of two different strings contains the other   *)
(* both orders give 0.8; the two orders give different values only when    *)
(* the strings are different and neither contains the other, the value     *)
(* then being the share of characters of the first argument that occur in  *)
(* the second.                                                             *)
(***************************************************************************)
C12_SymmetryButOverlap ==
    SimDone =>
        /\ ta = tb => FracEq(sim_ab, <<1, 1>>) /\ FracEq(sim_ba, <<1, 1>>)
        /\ (ta # tb /\ (Contains(ta, tb) \/ Contains(tb, ta)))
               => FracEq(sim_ab, <<4, 5>>) /\ FracEq(sim_ba, <<4, 5>>)
        /\ ~FracEq(sim_ab, sim_ba)
               => ta # tb /\ ~Contains(ta, tb) /\ ~Contains(tb, ta)

\* 1.0 in one order and less in the other, neither string containing the other
C12_Witness ==
    /\ SimDone
    /\ ~FracEq(sim_ab, sim_ba)
    /\ FracEq(sim_ab, <<1, 1>>)

(***************************************************************************)
(* C13.  For all strings A and B over the alphabet, text_similarity(A, B)  *)
(* is 1.0 if A = B; else 0.8 if one is a substring of the other; else the  *)
(* number of character positions of A whose character occurs anywhere in   *)
(* B, divided by max(len(A), len(B)), and 0 when that maximum is 0.        *)
(***************************************************************************)
Reference(a, b) ==
    IF a = b THEN <<1, 1>>
    ELSE IF Contains(a, b) \/ Contains(b, a) THEN <<4, 5>>
    ELSE IF Len(a) = 0 /\ Len(b) = 0 THEN <<0, 1>>
    ELSE <<Cardinality({k \in 1..Len(a) : \E m \in 1..Len(b) : b[m] = a[k]}),
           IF Len(a) >= Len(b) THEN Len(a) ELSE Len(b)>>

C13_MatchesReference ==
    /\ (prog = "sim" /\ pc \in {"swapped", "done"}) => FracEq(sim_ab, Reference(ta, tb))
    /\ SimDone => FracEq(sim_ba, Reference(tb, ta))

\* a character of A that occurs twice in A and once in B counts twice
C13_Witness ==
    /\ SimDone
    /\ ta # tb /\ ~Contains(ta, tb) /\ ~Contains(tb, ta)
    /\ sim_ab[1] > Cardinality(Range(ta) \cap Range(tb))
    /\ sim_ab[1] < Len(ta)

(***************************************************************************)
(* C11.  Original statement: deduplicate_texts run on its own output with  *)
(* the same thresholds returns the same set of labels; nothing is merged   *)
(* or dropped.                                                             *)
(***************************************************************************)
Result == [k \in 1..Len(deduplicated) |-> dtexts[deduplicated[k]]]

SecondDone == DedupDone /\ run = 2

C11_Idempotent ==
    SecondDone => /\ Range(Result) = Range(dtexts)
                  /\ Len(Result) = Len(dtexts)

(***************************************************************************)
(* C11, amended.  deduplicate_texts run on its own output with the same    *)
(* thresholds returns labels of that output only, each at most once, and   *)
(* returns the output unchanged exactly when no label of it has a later    *)
(* label within position_threshold whose text is similar to its own at     *)
(* similarity_threshold; otherwise it returns fewer labels.                *)
(***************************************************************************)
LaterDuplicate ==
    \E i, j \in 1..Len(dtexts) :
        /\ i < j
        /\ Near(dtexts[i], dtexts[j], position_threshold)
        /\ FracGE(text_similarity(dtexts[i].text, dtexts[j].text), similarity_threshold)

C11_RerunShrinks ==
    SecondDone =>
        /\ Range(Result) \subseteq Range(dtexts)
        /\ \A a, b \in 1..Len(deduplicated) :
               deduplicated[a] = deduplicated[b] => a = b
        /\ ~LaterDuplicate => Result = dtexts
        /\ LaterDuplicate => Len(Result) < Len(dtexts)

\* the second call merges the representatives of two clusters of the first
C11_Witness ==
    /\ SecondDone
    /\ Len(groups) < Len(dtexts)
    /\ Len(dtexts) >= 2

(***************************************************************************)
(* C14.  When the input of deduplicate_texts consists only of k >= 1       *)
(* reports of the same text, each at a distance < position_threshold of    *)
(* the first report, the output is exactly one label, with that text and   *)
(* with the maximum of the k confidences.                                  *)
(***************************************************************************)
SameTextReports ==
    /\ Len(dtexts) >= 1
    /\ \A k \in 1..Len(dtexts) :
           /\ dtexts[k].text = dtexts[1].text
           /\ Near(dtexts[1], dtexts[k], position_threshold)

C14_OneLabel ==
    (DedupDone /\ SameTextReports) =>
        /\ Len(deduplicated) = 1
        /\ Result[1].text = dtexts[1].text
        /\ Result[1].confidence = SetMax({dtexts[k].confidence : k \in 1..Len(dtexts)})

\* the three "BOILER RM" reports of the demo, thresholds 15 and 0.7: one label, 96
C14_Witness ==
    /\ DedupDone /\ SameTextReports
    /\ dtexts = SubSeq(example_texts, 1, 3)
    /\ position_threshold = DemoThresholds[1]
    /\ similarity_threshold = DemoThresholds[2]
    /\ Len(deduplicated) = 1
    /\ Result[1].confidence = 96

(***************************************************************************)
(* Multiline Joiner: identify_multiline_room_names and is_room_code.       *)
(* Three scripts carry a version of it:                                    *)
(*   "multi_scan"  run_enhanced_multi_scan.py  (override keyword RM)       *)
(*   "fast"        fast_fullpage_ocr.py        (RM, ROOM, OFFICE, LAB)     *)
(*   "multiline"   enhanced_multiline_ocr.py   (no override; the vertical  *)
(*                 test is |y2 - (y1 + height1)| < vertical_threshold)     *)
(* A phrase is [text, x, y, height, confidence]; a label is [text,         *)
(* confidence, x, y, parts, multiline], its confidence the fraction        *)
(* <<sum, count>>.                                                         *)
(***************************************************************************)
Digits == {"0", "1", "2", "3", "4", "5", "6", "7", "8", "9"}

LowerCase == <<"a", "b", "c", "d", "e", "f", "g", "h", "i", "j", "k", "l", "m",
               "n", "o", "p", "q", "r", "s", "t", "u", "v", "w", "x", "y", "z">>

UpperCase == <<"A", "B", "C", "D", "E", "F", "G", "H", "I", "J", "K", "L", "M",
               "N", "O", "P", "Q", "R", "S", "T", "U", "V", "W", "X", "Y", "Z">>

\* str.upper()
Upper(t) ==
    [k \in 1..Len(t) |->
        IF \E n \in 1..Len(LowerCase) : LowerCase[n] = t[k]
        THEN UpperCase[CHOOSE n \in 1..Len(LowerCase) : LowerCase[n] = t[k]]
        ELSE t[k]]

\* str.strip()
RECURSIVE Strip(_)
Strip(t) ==
    IF Len(t) = 0 THEN t
    ELSE IF Head(t) = " " THEN Strip(Tail(t))
    ELSE IF t[Len(t)] = " " THEN Strip(SubSeq(t, 1, Len(t) - 1))
    ELSE t

\* str.replace(c, '') for every c of chars
Without(t, chars) == SelectSeq(t, LAMBDA c : c \notin chars)

\* str.isdigit()
IsDigit(t) == Len(t) > 0 /\ \A k \in 1..Len(t) : t[k] \in Digits

is_room_codeMutPrefix(text) ==
    \* bug: every text that starts with T and has a second character is a code
    LET t == Strip(text)
    IN \/ /\ Len(t) > 1
          /\ t[1] = "T"
       \/ IsDigit(Without(t, {".", ",", " "}))

is_room_code(text) ==
    LET t == Strip(text)
    IN \/ /\ Len(t) > 1
          /\ t[1] = "T"
          /\ IsDigit(Without(Tail(t), {"."}))
       \/ IsDigit(Without(t, {".", ",", " "}))

MECH == <<"M", "E", "C", "H">>
T12 == <<"T", "1", "2">>
ROOM == <<"R", "O", "O", "M">>
OFFICE == <<"O", "F", "F", "I", "C", "E">>
LAB == <<"L", "A", "B">>

Joiners == {"multi_scan", "fast", "multiline"}

\* the function is entered on its own ("join") or from the multi-scan script
JoinCallers == {"join", "ms"}

\* the keywords that override the code exclusion
Keywords(version) ==
    IF version = "multi_scan" THEN {RM}
    ELSE IF version = "fast" THEN {RM, ROOM, OFFICE, LAB}
    ELSE {}

\* "if not is_room_code(phrase2['text']) or <keyword> in phrase2['text'].upper()"
Continuation(version, text) ==
    \/ ~is_room_code(text)
    \/ \E word \in Keywords(version) : IsSubstring(word, Upper(text))

\* "if x_diff < horizontal_threshold and 0 < y_diff < vertical_threshold"
Aligned(version, phrase1, phrase2, vt, ht) ==
    /\ Abs(phrase1.x - phrase2.x) < ht
    /\ IF version = "multiline"
       THEN Abs(phrase2.y - (phrase1.y + phrase1.height)) < vt
       ELSE 0 < phrase2.y - phrase1.y /\ phrase2.y - phrase1.y < vt

\* sorted(phrases, key=lambda p: (p['x'], p['y']))
SortByXY(ps) ==
    LET order == SortedPositions(Len(ps), [k \in 1..Len(ps) |-> <<ps[k].x, ps[k].y>>])
    IN [k \in 1..Len(ps) |-> ps[order[k]]]

RoomPartsMutKeepUsed(version, ps, i, usedSet, vt, ht) ==
    \* bug: used_phrases is not consulted in the inner loop
    <<i>> \o SelectSeq([k \in 1..Len(ps) |-> k],
                       LAMBDA j : /\ j > i
                                  /\ Aligned(version, ps[i], ps[j], vt, ht)
                                  /\ Continuation(version, ps[j].text))

\* room_parts = [phrase1] + every later unused phrase2 that passes the tests
RoomParts(version, ps, i, usedSet, vt, ht) ==
    <<i>> \o SelectSeq([k \in 1..Len(ps) |-> k],
                       LAMBDA j : /\ j > i
                                  /\ j \notin usedSet
                                  /\ Aligned(version, ps[i], ps[j], vt, ht)
                                  /\ Continuation(version, ps[j].text))

SortPartsByYMutNone(parts, ps) ==
    \* bug: room_parts is not sorted
    parts

\* room_parts.sort(key=lambda p: p['y'])
SortPartsByY(parts, ps) ==
    LET order == SortedPositions(Len(parts), [k \in 1..Len(parts) |-> <<ps[parts[k]].y>>])
    IN [k \in 1..Len(parts) |-> parts[order[k]]]

\* the dict appended to multiline_rooms; parts is already sorted
RoomLabel(parts, ps) ==
    IF Len(parts) > 1
    THEN [text |-> Join([k \in 1..Len(parts) |-> ps[parts[k]].text]),
          confidence |-> <<SumSeq([k \in 1..Len(parts) |-> ps[parts[k]].confidence]),
                           Len(parts)>>,
          x |-> ps[parts[1]].x,
          y |-> ps[parts[1]].y,
          parts |-> Len(parts),
          multiline |-> TRUE]
    ELSE [text |-> ps[parts[1]].text,
          confidence |-> <<ps[parts[1]].confidence, 1>>,
          x |-> ps[parts[1]].x,
          y |-> ps[parts[1]].y,
          parts |-> 1,
          multiline |-> FALSE]

JXVals == {100, 110}
JYVals == {200, 215}

JPhrase(t, px, py) ==
    [text |-> t, x |-> px, y |-> py, height |-> 10,
     confidence |-> IF t = MECH THEN 90 ELSE IF t = RM THEN 80 ELSE 70]

PhrasePool == {JPhrase(t, px, py) : t \in {MECH, RM, T12}, px \in JXVals, py \in JYVals}

\* <<vertical_threshold, horizontal_threshold>>
JoinThresholds == {<<40, 120>>, <<15, 120>>, <<40, 10>>}

InitJoin ==
    \E v \in Joiners :
      \E th \in JoinThresholds :
        \E inp \in SeqsUpTo(PhrasePool, MaxPhrases) :
          /\ prog = "join"
          /\ pc = "start"
          /\ joiner = v
          /\ jinput = inp
          /\ phrases = inp
          /\ vertical_threshold = th[1]
          /\ horizontal_threshold = th[2]
          /\ used_phrases = {}
          /\ ji = 1
          /\ room_parts = <<>>
          /\ multiline_rooms = <<>>
          /\ GroupIdle
          /\ DedupIdle
          /\ SimIdle
          /\ ScanIdle
          /\ LlmIdle
          /\ PdfIdle
          /\ OrderIdle
          /\ CodeIdle
          /\ RunIdle

\* identify_multiline_room_names: sort phrases by position
JnSort ==
    /\ prog \in JoinCallers /\ pc = "start"
    /\ phrases' = SortByXY(jinput)
    /\ pc' = "loop"
    /\ UNCHANGED <<prog, joiner, jinput, vertical_threshold, horizontal_threshold,
                   used_phrases, ji, room_parts, multiline_rooms>>
    /\ UNCHANGED <<groupVars, dedupVars, simVars, scanVars, llmVars, pdfVars,
                   orderVars, codeVars, runVars>>

\* "if i in used_phrases: continue"
JnSkip ==
    /\ prog \in JoinCallers /\ pc = "loop" /\ ji <= Len(phrases)
    /\ ji \in used_phrases
    /\ ji' = ji + 1
    /\ UNCHANGED <<prog, pc, joiner, jinput, phrases, vertical_threshold,
                   horizontal_threshold, used_phrases, room_parts, multiline_rooms>>
    /\ UNCHANGED <<groupVars, dedupVars, simVars, scanVars, llmVars, pdfVars,
                   orderVars, codeVars, runVars>>

\* phrase i starts a label, takes its parts, and the label is appended
JnLabel ==
    /\ prog \in JoinCallers /\ pc = "loop" /\ ji <= Len(phrases)
    /\ ji \notin used_phrases
    /\ LET found == RoomParts(joiner, phrases, ji, used_phrases,
                              vertical_threshold, horizontal_threshold)
           parts == IF Len(found) > 1 THEN SortPartsByY(found, phrases) ELSE found
       IN /\ used_phrases' = used_phrases \cup Range(found)
          /\ room_parts' = Append(room_parts, parts)
          /\ multiline_rooms' = Append(multiline_rooms, RoomLabel(parts, phrases))
    /\ ji' = ji + 1
    /\ UNCHANGED <<prog, pc, joiner, jinput, phrases, vertical_threshold,
                   horizontal_threshold>>
    /\ UNCHANGED <<groupVars, dedupVars, simVars, scanVars, llmVars, pdfVars,
                   orderVars, codeVars, runVars>>

\* "return multiline_rooms"
JnReturn ==
    /\ prog \in JoinCallers /\ pc = "loop" /\ ji > Len(phrases)
    /\ pc' = "done"
    /\ UNCHANGED <<prog, joiner, jinput, phrases, vertical_threshold,
                   horizontal_threshold, used_phrases, ji, room_parts, multiline_rooms>>
    /\ UNCHANGED <<groupVars, dedupVars, simVars, scanVars, llmVars, pdfVars,
                   orderVars, codeVars, runVars>>

NextJoin ==
    \/ JnSort
    \/ JnSkip
    \/ JnLabel
    \/ JnReturn

SpecJoin == InitJoin /\ [][NextJoin]_vars

JoinDone == prog = "join" /\ pc = "done"

\* the label (its number) that has phrase i among its parts
LabelOf(i) == CHOOSE g \in 1..Len(room_parts) : i \in Range(room_parts[g])

(***************************************************************************)
(* C15.  Two phrases are joined into one label iff their x positions       *)
(* differ by less than horizontal_threshold, the lower phrase lies         *)
(* strictly below the upper one by a vertical distance in the open         *)
(* interval (0, vertical_threshold), and the lower phrase is not a         *)
(* structured code unless it contains the keyword RM; every pair of input  *)
(* phrases satisfying these conditions ends up in the same label,          *)
(* whichever of the two has the smaller x.  Stated of the two versions     *)
(* whose vertical test is the one of the statement.                        *)
(***************************************************************************)
Stacked(upper, lower) ==
    /\ Abs(upper.x - lower.x) < horizontal_threshold
    /\ 0 < lower.y - upper.y
    /\ lower.y - upper.y < vertical_threshold
    /\ (~is_room_code(lower.text) \/ IsSubstring(RM, Upper(lower.text)))

C15_JoinIff ==
    (JoinDone /\ joiner \in {"multi_scan", "fast"}) =>
        \A i, j \in 1..Len(phrases) :
            i # j =>
                ((LabelOf(i) = LabelOf(j))
                    <=> (Stacked(phrases[i], phrases[j]) \/ Stacked(phrases[j], phrases[i])))

(***************************************************************************)
(* C16.  identify_multiline_room_names assigns each input phrase to        *)
(* exactly one output label: no phrase is a constituent of two labels,     *)
(* the parts counts of the labels sum to the number of input phrases, and  *)
(* a phrase that passes the join test with no other phrase, in either      *)
(* role, yields a label with parts = 1 and multiline = False carrying the  *)
(* phrase's text unchanged.                                                *)
(***************************************************************************)
JoinTest(i, j) ==
    /\ Aligned(joiner, phrases[i], phrases[j], vertical_threshold, horizontal_threshold)
    /\ Continuation(joiner, phrases[j].text)

NoPartner(i) ==
    \A j \in (1..Len(phrases)) \ {i} : ~JoinTest(i, j) /\ ~JoinTest(j, i)

C16_OneLabelEach ==
    JoinDone =>
        /\ Len(room_parts) = Len(multiline_rooms)
        /\ \A i \in 1..Len(phrases) :
               Cardinality({g \in 1..Len(room_parts) : i \in Range(room_parts[g])}) = 1
        /\ \A g \in 1..Len(room_parts) :
               /\ multiline_rooms[g].parts = Len(room_parts[g])
               /\ Cardinality(Range(room_parts[g])) = Len(room_parts[g])
        /\ SumSeq([g \in 1..Len(multiline_rooms) |-> multiline_rooms[g].parts]) = Len(jinput)
        /\ \A i \in 1..Len(phrases) :
               NoPartner(i) =>
                   /\ multiline_rooms[LabelOf(i)].parts = 1
                   /\ multiline_rooms[LabelOf(i)].multiline = FALSE
                   /\ multiline_rooms[LabelOf(i)].text = phrases[i].text

\* a joined label next to a phrase that found no partner
C16_Witness ==
    /\ JoinDone
    /\ \E i \in 1..Len(phrases) : NoPartner(i) /\ multiline_rooms[LabelOf(i)].parts = 1
    /\ \E g \in 1..Len(multiline_rooms) : multiline_rooms[g].parts = 2

(***************************************************************************)
(* C17.  Every multi-part label has its text equal to the texts of its     *)
(* constituents joined by single spaces in ascending y order, its position *)
(* equal to the position of its topmost constituent, its confidence equal  *)
(* to the mean of the constituents' confidences, and parts equal to the    *)
(* number of constituents.                                                 *)
(***************************************************************************)
C17_LabelContent ==
    JoinDone =>
        \A g \in 1..Len(multiline_rooms) :
            LET parts == room_parts[g]
                label == multiline_rooms[g]
            IN Len(parts) > 1 =>
                /\ \A k \in 1..(Len(parts) - 1) :
                       phrases[parts[k]].y <= phrases[parts[k + 1]].y
                /\ label.text = Join([k \in 1..Len(parts) |-> phrases[parts[k]].text])
                /\ \A k \in 1..Len(parts) : phrases[parts[1]].y <= phrases[parts[k]].y
                /\ label.x = phrases[parts[1]].x
                /\ label.y = phrases[parts[1]].y
                /\ label.confidence[2] = Len(parts)
                /\ label.confidence[1]
                       = SumSeq([k \in 1..Len(parts) |-> phrases[parts[k]].confidence])
                /\ label.parts = Len(parts)
                /\ label.multiline = TRUE

\* MECH at (100, 200) and RM at (100, 215), thresholds 40/120: "MECH RM", parts 2
C17_Witness ==
    /\ JoinDone
    /\ joiner = "multi_scan"
    /\ jinput = <<JPhrase(MECH, 100, 200), JPhrase(RM, 100, 215)>>
    /\ vertical_threshold = 40 /\ horizontal_threshold = 120
    /\ Len(multiline_rooms) = 1
    /\ multiline_rooms[1].text = Join(<<MECH, RM>>)
    /\ multiline_rooms[1].parts = 2

(***************************************************************************)
(* The main script of run_enhanced_multi_scan.py: every scan (a grid       *)
(* offset with a preprocessing mode) extends all_raw_texts; the texts are  *)
(* then bucketed by region_id, each bucket goes through                    *)
(* group_multiline_texts, and all phrases together go through              *)
(* identify_multiline_room_names.  A text is [text, x, y, width, height,   *)
(* confidence, region_id, scan]; scan, the number of the scan that         *)
(* extracted the text, is not a key of the source dict and is carried to   *)
(* tell the scans apart.  The confidences are equal, so the means are      *)
(* exact.                                                                  *)
(***************************************************************************)
DefaultYHi == 20
DefaultYLo == 2
DefaultXTolerance == 100
DefaultVertical == 40
DefaultHorizontal == 120

RawText(t, px, py, region) ==
    [text |-> t, x |-> px, y |-> py, width |-> IF t = BOILER THEN 30 ELSE 10,
     height |-> 8, confidence |-> 90, region_id |-> region]

\* what extract_with_preprocessing may return for the regions of one scan
RawPool == {RawText(BOILER, 10, 0, "0_0"), RawText(RM, 60, 0, "0_0"),
            RawText(RM, 10, 30, "0_1")}

ScanOutputs == UNION {[1..n -> SeqsUpTo(RawPool, MaxScanWords)] : n \in 1..MaxScans}

Tagged(ts, k) ==
    [m \in 1..Len(ts) |->
        [text |-> ts[m].text, x |-> ts[m].x, y |-> ts[m].y, width |-> ts[m].width,
         height |-> ts[m].height, confidence |-> ts[m].confidence,
         region_id |-> ts[m].region_id, scan |-> k]]

\* keys of texts_by_region, in insertion order
RECURSIVE RegionOrder(_)
RegionOrder(ts) ==
    IF Len(ts) = 0 THEN <<>>
    ELSE LET before == RegionOrder(SubSeq(ts, 1, Len(ts) - 1))
             r == ts[Len(ts)].region_id
         IN IF r \in Range(before) THEN before ELSE Append(before, r)

\* texts_by_region[region_id]
RegionTexts(ts, region) == SelectSeq(ts, LAMBDA t : t.region_id = region)

\* group_multiline_texts(region_texts); every phrase keeps the texts it was
\* built from in words
RegionPhrases(region_texts) ==
    LET sorted == SortByYX(region_texts)
        ps == GmtRun(region_texts, <<DefaultYHi, DefaultYLo>>, DefaultXTolerance)
    IN [k \in 1..Len(ps) |->
           [text |-> ps[k].text,
            confidence |-> ps[k].confidence[1] \div ps[k].confidence[2],
            x |-> ps[k].x, y |-> ps[k].y,
            width |-> ps[k].width, height |-> ps[k].height,
            word_count |-> ps[k].word_count, y_tolerance |-> ps[k].y_tolerance,
            words |-> [m \in 1..Len(ps[k].indices) |-> sorted[ps[k].indices[m]]]]]

RECURSIVE Concat(_)
Concat(ss) == IF Len(ss) = 0 THEN <<>> ELSE Head(ss) \o Concat(Tail(ss))

\* "for region_id, region_texts in texts_by_region.items(): all_phrases.extend(...)"
AllRegionPhrases(ts) ==
    LET order == RegionOrder(ts)
    IN Concat([k \in 1..Len(order) |-> RegionPhrases(RegionTexts(ts, order[k]))])

InitScan ==
    \E outs \in ScanOutputs :
        /\ prog = "ms"
        /\ pc = "scan"
        /\ scan_outputs = outs
        /\ scan_count = 0
        /\ all_raw_texts = <<>>
        /\ GroupIdle
        /\ DedupIdle
        /\ SimIdle
        /\ JoinIdle
        /\ LlmIdle
        /\ PdfIdle
        /\ OrderIdle
        /\ CodeIdle
        /\ RunIdle

\* one scan: its texts extend all_raw_texts
MsScan ==
    /\ prog = "ms" /\ pc = "scan" /\ scan_count < Len(scan_outputs)
    /\ scan_count' = scan_count + 1
    /\ all_raw_texts' = all_raw_texts \o Tagged(scan_outputs[scan_count + 1], scan_count + 1)
    /\ UNCHANGED <<prog, pc, scan_outputs>>
    /\ UNCHANGED <<groupVars, dedupVars, simVars, joinVars, llmVars, pdfVars,
                   orderVars, codeVars, runVars>>

\* grouping per region_id, then the call of identify_multiline_room_names
MsGroup ==
    /\ prog = "ms" /\ pc = "scan" /\ scan_count = Len(scan_outputs)
    /\ all_phrases' = AllRegionPhrases(all_raw_texts)
    /\ joiner' = "multi_scan"
    /\ jinput' = AllRegionPhrases(all_raw_texts)
    /\ phrases' = AllRegionPhrases(all_raw_texts)
    /\ vertical_threshold' = DefaultVertical
    /\ horizontal_threshold' = DefaultHorizontal
    /\ used_phrases' = {}
    /\ ji' = 1
    /\ room_parts' = <<>>
    /\ multiline_rooms' = <<>>
    /\ pc' = "start"
    /\ UNCHANGED <<prog, input, texts, y_tolerance_range, x_tolerance, y_tolerance,
                   lines, used_indices, potential_phrases, cand,
                   pass_used_word_indices, annotated_locations, remaining_text>>
    /\ UNCHANGED <<dedupVars, simVars, scanVars, llmVars, pdfVars, orderVars, codeVars,
                   runVars>>

NextScan ==
    \/ MsScan
    \/ MsGroup
    \/ JnSort
    \/ JnSkip
    \/ JnLabel
    \/ JnReturn

SpecScan == InitScan /\ [][NextScan]_vars

ScanDone == prog = "ms" /\ pc = "done"

\* the scans a phrase was built from
ScansOf(phrase) == {w.scan : w \in Range(phrase.words)}

(***************************************************************************)
(* C18.  No phrase and no multiline label is built from word boxes that    *)
(* come from two different scans: grouping and multiline joining run per   *)
(* scan.                                                                   *)
(***************************************************************************)
C18_ScansIndependent ==
    ScanDone =>
        /\ \A k \in 1..Len(all_phrases) : Cardinality(ScansOf(all_phrases[k])) = 1
        /\ \A g \in 1..Len(room_parts) :
               Cardinality(UNION {ScansOf(phrases[i]) : i \in Range(room_parts[g])}) = 1

(***************************************************************************)
(* query_llm of Automapper.py.  What a request comes back with is a record *)
(* [error, choices, json, data]: error is the exception of requests.post   *)
(* or raise_for_status ("" when there is none); choices says whether the   *)
(* body has no "choices" key, an empty list or one choice; json says       *)
(* whether the content of the choice is a JSON object, another JSON value  *)
(* or no JSON; data is the decoded object, a dict.  Dicts are functions    *)
(* from keys to strings.                                                   *)
(***************************************************************************)
Response(e, c, j, d) == [error |-> e, choices |-> c, json |-> j, data |-> d]

Dicts == {("SignType" :> "EXIT") @@ ("FullMessage" :> "Exit Here"),
          ("SignType" :> "EXIT"),
          ("FullMessage" :> "Exit Here"),
          <<>>}

Responses ==
    {Response("ConnectionError", "", "", <<>>), Response("HTTPError", "", "", <<>>),
     Response("", "absent", "", <<>>), Response("", "empty", "", <<>>),
     Response("", "one", "array", <<>>), Response("", "one", "invalid", <<>>)}
    \cup {Response("", "one", "object", d) : d \in Dicts}

LlmTexts == {"BOILER RM", "EXIT"}

\* dict.get(key, default)
Get(d, key, default) == IF key \in DOMAIN d THEN d[key] ELSE default

\* the dict of the two return statements that give up
Fallback(text) == ("SignType" :> "UNKNOWN") @@ ("FullMessage" :> text)

\* the dict of the return statement after json.loads
Parsed(data, text) ==
    ("SignType" :> Get(data, "SignType", "UNKNOWN"))
        @@ ("FullMessage" :> Get(data, "FullMessage", text))

\* requests.exceptions.RequestException and its subclasses
RequestExceptions == {"ConnectionError", "HTTPError"}

\* the body of one iteration of "for attempt in range(config.max_retries)":
\* it returns a dict, lets an exception out, or goes on to the next attempt
AttemptMutRetryInvalid(r, text) ==
    \* bug: content that is not valid JSON is retried like a failed request
    IF r.error \in RequestExceptions THEN [kind |-> "retry", value |-> <<>>, exception |-> ""]
    ELSE IF r.choices = "empty"
        THEN [kind |-> "raise", value |-> <<>>, exception |-> "IndexError"]
    ELSE IF r.choices = "absent"
        THEN [kind |-> "return", value |-> Parsed(<<>>, text), exception |-> ""]
    ELSE IF r.json = "object"
        THEN [kind |-> "return", value |-> Parsed(r.data, text), exception |-> ""]
    ELSE IF r.json = "array"
        THEN [kind |-> "raise", value |-> <<>>, exception |-> "AttributeError"]
    ELSE [kind |-> "retry", value |-> <<>>, exception |-> ""]

Attempt(r, text) ==
    IF r.error \in RequestExceptions THEN [kind |-> "retry", value |-> <<>>, exception |-> ""]
    ELSE IF r.choices = "empty"
        THEN [kind |-> "raise", value |-> <<>>, exception |-> "IndexError"]
    ELSE IF r.choices = "absent"
        THEN [kind |-> "return", value |-> Parsed(<<>>, text), exception |-> ""]
    ELSE IF r.json = "object"
        THEN [kind |-> "return", value |-> Parsed(r.data, text), exception |-> ""]
    ELSE IF r.json = "array"
        THEN [kind |-> "raise", value |-> <<>>, exception |-> "AttributeError"]
    ELSE [kind |-> "return", value |-> Fallback(text), exception |-> ""]

\* query_llm is called on its own ("llm") or from process_all_pdfs ("pdfs")
LlmCallers == {"llm", "pdfs"}

InitLlm ==
    \E text \in LlmTexts, retries \in 0..MaxRetries :
        /\ prog = "llm"
        /\ pc = "attempt"
        /\ ltext = text
        /\ max_retries = retries
        /\ attempt = 0
        /\ requests_sent = 0
        /\ sleeps = 0
        /\ outcome = NoResponse
        /\ lresult = <<>>
        /\ raised = ""
        /\ GroupIdle
        /\ DedupIdle
        /\ SimIdle
        /\ JoinIdle
        /\ ScanIdle
        /\ PdfIdle
        /\ OrderIdle
        /\ CodeIdle
        /\ RunIdle

\* one iteration of the retry loop: the request, the parsing, the sleep
LlmAttempt ==
    /\ prog \in LlmCallers /\ pc = "attempt" /\ attempt < max_retries
    /\ \E r \in Responses :
          /\ outcome' = r
          /\ requests_sent' = requests_sent + 1
          /\ LET a == Attempt(r, ltext)
             IN /\ pc' = IF a.kind = "retry" THEN "attempt"
                         ELSE IF a.kind = "return" THEN "returned" ELSE "raised"
                /\ lresult' = a.value
                /\ raised' = a.exception
                /\ attempt' = IF a.kind = "retry" THEN attempt + 1 ELSE attempt
                /\ sleeps' = IF a.kind = "retry" /\ attempt < max_retries - 1
                             THEN sleeps + 1 ELSE sleeps
    /\ UNCHANGED <<prog, ltext, max_retries>>
    /\ UNCHANGED <<groupVars, dedupVars, simVars, joinVars, scanVars, pdfVars,
                   orderVars, codeVars, runVars>>

\* the loop is over: "All API requests failed", the default is returned
LlmExhausted ==
    /\ prog \in LlmCallers /\ pc = "attempt" /\ attempt >= max_retries
    /\ lresult' = Fallback(ltext)
    /\ pc' = "returned"
    /\ UNCHANGED <<prog, ltext, max_retries, attempt, requests_sent, sleeps, outcome,
                   raised>>
    /\ UNCHANGED <<groupVars, dedupVars, simVars, joinVars, scanVars, pdfVars,
                   orderVars, codeVars, runVars>>

NextLlm ==
    \/ LlmAttempt
    \/ LlmExhausted

SpecLlm == InitLlm /\ [][NextLlm]_vars

LlmDone == prog = "llm" /\ pc \in {"returned", "raised"}

\* every request of the call failed
AllFailed == LlmDone /\ requests_sent = max_retries /\ outcome.error \in RequestExceptions

(***************************************************************************)
(* C19.  Whatever the requests come back with, query_llm issues at most    *)
(* max_retries requests, never raises and returns a dict with SignType and *)
(* FullMessage; when all attempts fail the dict is UNKNOWN with the        *)
(* original text.                                                          *)
(***************************************************************************)
C19_NeverRaises ==
    /\ (prog = "llm" => requests_sent <= max_retries)
    /\ (LlmDone =>
          /\ pc = "returned"
          /\ DOMAIN lresult = {"SignType", "FullMessage"})
    /\ (AllFailed => lresult = ("SignType" :> "UNKNOWN") @@ ("FullMessage" :> ltext))

(***************************************************************************)
(* The classification of process_all_pdfs.  files[f] is the sequence of    *)
(* the texts of the candidates of file f that pass the two "already used"  *)
(* tests, over all pages and passes of the file, in the order in which the *)
(* loops reach them.  An exception that leaves query_llm is caught by the  *)
(* "except Exception" of the file, which ends the processing of that file. *)
(***************************************************************************)
FileCandidates == UNION {[1..n -> LlmTexts] : n \in 0..MaxCandidates}

FileLists == UNION {[1..n -> FileCandidates] : n \in 1..MaxFiles}

\* llm_cache[phrase] = sign_data
Put(cache, phrase, sign_data) ==
    [t \in DOMAIN cache \cup {phrase} |-> IF t = phrase THEN sign_data ELSE cache[t]]

InitPdfs ==
    \E fs \in FileLists, retries \in 0..MaxRetries :
        /\ prog = "pdfs"
        /\ pc = "next"
        /\ files = fs
        /\ fi = 1
        /\ ci = 1
        /\ llm_cache = <<>>
        /\ queried = <<>>
        /\ sign_log = <<>>
        /\ ltext = ""
        /\ max_retries = retries
        /\ attempt = 0
        /\ requests_sent = 0
        /\ sleeps = 0
        /\ outcome = NoResponse
        /\ lresult = <<>>
        /\ raised = ""
        /\ GroupIdle
        /\ DedupIdle
        /\ SimIdle
        /\ JoinIdle
        /\ ScanIdle
        /\ OrderIdle
        /\ CodeIdle
        /\ RunIdle

\* "if phrase in llm_cache": the cached sign data is used
PdCached ==
    /\ prog = "pdfs" /\ pc = "next" /\ fi <= Len(files) /\ ci <= Len(files[fi])
    /\ files[fi][ci] \in DOMAIN llm_cache
    /\ sign_log' = Append(sign_log, <<files[fi][ci], llm_cache[files[fi][ci]]>>)
    /\ ci' = ci + 1
    /\ UNCHANGED <<prog, pc, files, fi, llm_cache, queried>>
    /\ UNCHANGED <<groupVars, dedupVars, simVars, joinVars, scanVars, llmVars,
                   orderVars, codeVars, runVars>>

\* "else": query_llm is called with the phrase
PdQuery ==
    /\ prog = "pdfs" /\ pc = "next" /\ fi <= Len(files) /\ ci <= Len(files[fi])
    /\ files[fi][ci] \notin DOMAIN llm_cache
    /\ queried' = Append(queried, files[fi][ci])
    /\ ltext' = files[fi][ci]
    /\ attempt' = 0
    /\ requests_sent' = 0
    /\ sleeps' = 0
    /\ outcome' = NoResponse
    /\ lresult' = <<>>
    /\ raised' = ""
    /\ pc' = "attempt"
    /\ UNCHANGED <<prog, max_retries, files, fi, ci, llm_cache, sign_log>>
    /\ UNCHANGED <<groupVars, dedupVars, simVars, joinVars, scanVars, orderVars,
                   codeVars, runVars>>

\* query_llm returned: the result is cached and used
PdStore ==
    /\ prog = "pdfs" /\ pc = "returned"
    /\ llm_cache' = Put(llm_cache, files[fi][ci], lresult)
    /\ sign_log' = Append(sign_log, <<files[fi][ci], lresult>>)
    /\ ci' = ci + 1
    /\ pc' = "next"
    /\ UNCHANGED <<prog, files, fi, queried>>
    /\ UNCHANGED <<groupVars, dedupVars, simVars, joinVars, scanVars, llmVars,
                   orderVars, codeVars, runVars>>

\* query_llm raised: "except Exception" of the file, on to the next file
PdError ==
    /\ prog = "pdfs" /\ pc = "raised"
    /\ fi' = fi + 1
    /\ ci' = 1
    /\ pc' = "next"
    /\ UNCHANGED <<prog, files, llm_cache, queried, sign_log>>
    /\ UNCHANGED <<groupVars, dedupVars, simVars, joinVars, scanVars, llmVars,
                   orderVars, codeVars, runVars>>

\* the candidates of the file are exhausted: the file is saved, on to the next
PdNextFile ==
    /\ prog = "pdfs" /\ pc = "next" /\ fi <= Len(files) /\ ci > Len(files[fi])
    /\ fi' = fi + 1
    /\ ci' = 1
    /\ UNCHANGED <<prog, pc, files, llm_cache, queried, sign_log>>
    /\ UNCHANGED <<groupVars, dedupVars, simVars, joinVars, scanVars, llmVars,
                   orderVars, codeVars, runVars>>

\* the return of process_all_pdfs
PdReturn ==
    /\ prog = "pdfs" /\ pc = "next" /\ fi > Len(files)
    /\ pc' = "done"
    /\ UNCHANGED <<prog, files, fi, ci, llm_cache, queried, sign_log>>
    /\ UNCHANGED <<groupVars, dedupVars, simVars, joinVars, scanVars, llmVars,
                   orderVars, codeVars, runVars>>

NextPdfs ==
    \/ PdCached
    \/ PdQuery
    \/ LlmAttempt
    \/ LlmExhausted
    \/ PdStore
    \/ PdError
    \/ PdNextFile
    \/ PdReturn

SpecPdfs == InitPdfs /\ [][NextPdfs]_vars

(***************************************************************************)
(* C20.  Within one process_all_pdfs run query_llm is invoked at most once *)
(* per distinct phrase text, and all candidates with the same text receive *)
(* the identical sign data.                                                *)
(***************************************************************************)
C20_QueriedOnce ==
    prog = "pdfs" =>
        /\ \A a, b \in 1..Len(queried) : queried[a] = queried[b] => a = b
        /\ \A a, b \in 1..Len(sign_log) :
               sign_log[a][1] = sign_log[b][1] => sign_log[a][2] = sign_log[b][2]

(***************************************************************************)
(* C24.  deduplicate_texts is seed-greedy.  At every point of the scan the *)
(* items before the scan position are all clustered, every cluster is      *)
(* seeded by the first item that was in no cluster before it, its other    *)
(* members are, in input order, exactly the items in no earlier cluster    *)
(* that are within position_threshold of the seed and similar to the seed  *)
(* at similarity_threshold, no item is in two clusters, and the output     *)
(* holds one member per cluster, in the order of the seeds.                *)
(***************************************************************************)
C24_SeedGreedy ==
    prog = "dedup" =>
        /\ used = UNION {Range(groups[g]) : g \in 1..Len(groups)}
        /\ \A j \in 1..Len(dtexts) : j < di => j \in used
        /\ \A g, h \in 1..Len(groups) :
               g < h => /\ Range(groups[g]) \cap Range(groups[h]) = {}
                        /\ groups[g][1] < groups[h][1]
        /\ \A g \in 1..Len(groups) :
               LET seed == groups[g][1]
                   before == UNION {Range(groups[h]) : h \in 1..(g - 1)}
               IN /\ seed \notin before
                  /\ (1..(seed - 1)) \subseteq before
                  /\ \A a, b \in 1..Len(groups[g]) : a < b => groups[g][a] < groups[g][b]
                  /\ \A j \in (1..Len(dtexts)) \ {seed} :
                         (j \in Range(groups[g]))
                             <=> /\ j \notin before
                                 /\ position_threshold > 0
                                 /\ (dtexts[seed].x - dtexts[j].x) * (dtexts[seed].x - dtexts[j].x)
                                      + (dtexts[seed].y - dtexts[j].y) * (dtexts[seed].y - dtexts[j].y)
                                      < position_threshold * position_threshold
                                 /\ text_similarity(dtexts[seed].text, dtexts[j].text)[1]
                                          * similarity_threshold[2]
                                      >= similarity_threshold[1]
                                          * text_similarity(dtexts[seed].text, dtexts[j].text)[2]
        /\ pc = "done" =>
               /\ Len(deduplicated) = Len(groups)
               /\ \A g \in 1..Len(groups) : deduplicated[g] \in Range(groups[g])

\* an item that qualifies with a non-seed member of a cluster, not with its
\* seed, and is left to a later cluster
C24_Witness ==
    /\ DedupDone
    /\ \E g, h \in 1..Len(groups) :
           /\ g < h
           /\ \E m \in Range(groups[g]) \ {groups[g][1]} :
                  /\ Qualifies(dtexts[m], dtexts[groups[h][1]], position_threshold,
                               similarity_threshold)
                  /\ ~Qualifies(dtexts[groups[g][1]], dtexts[groups[h][1]],
                                position_threshold, similarity_threshold)

(***************************************************************************)
(* C28.  With position_threshold > 0 and similarity_threshold <= 1, every  *)
(* item output by deduplicate_texts is an item of the input, taken at most *)
(* once, the output is no longer than the input, and no two output items   *)
(* have the same text and the same position: two input items with the     *)
(* same text and position are in the same cluster.                         *)
(***************************************************************************)
C28_OutputOfInput ==
    (DedupDone /\ position_threshold > 0
               /\ similarity_threshold[1] <= similarity_threshold[2]) =>
        /\ \A g \in 1..Len(deduplicated) : deduplicated[g] \in 1..Len(dtexts)
        /\ \A g, h \in 1..Len(deduplicated) : deduplicated[g] = deduplicated[h] => g = h
        /\ Len(deduplicated) <= Len(dtexts)
        /\ \A i, j \in 1..Len(dtexts) :
               (dtexts[i].text = dtexts[j].text /\ dtexts[i].x = dtexts[j].x
                    /\ dtexts[i].y = dtexts[j].y)
                   => \E g \in 1..Len(groups) : {i, j} \subseteq Range(groups[g])
        /\ \A g, h \in 1..Len(deduplicated) :
               (g # h) =>
                   ~(/\ dtexts[deduplicated[g]].text = dtexts[deduplicated[h]].text
                     /\ dtexts[deduplicated[g]].x = dtexts[deduplicated[h]].x
                     /\ dtexts[deduplicated[g]].y = dtexts[deduplicated[h]].y)

\* two reports of one text at one position with different confidences are
\* merged although only an exact match passes the similarity threshold
C28_Witness ==
    /\ DedupDone
    /\ similarity_threshold[1] = similarity_threshold[2]
    /\ Len(deduplicated) < Len(dtexts)
    /\ \E i, j \in 1..Len(dtexts) :
           /\ i < j
           /\ dtexts[i].text = dtexts[j].text
           /\ dtexts[i].x = dtexts[j].x /\ dtexts[i].y = dtexts[j].y
           /\ dtexts[i].confidence # dtexts[j].confidence

(***************************************************************************)
(* deduplicate_texts as a whole, called on a list and on a permutation of  *)
(* the list with the same thresholds.                                      *)
(***************************************************************************)
\* the groups built by the outer loop from item i on
RECURSIVE DedupGroups(_, _, _, _, _)
DedupGroups(ts, i, usedSet, pt, st) ==
    IF i > Len(ts) THEN <<>>
    ELSE IF i \in usedSet THEN DedupGroups(ts, i + 1, usedSet, pt, st)
    ELSE LET group == SeedGroup(ts, i, usedSet, pt, st)
         IN <<group>> \o DedupGroups(ts, i + 1, usedSet \cup Range(group), pt, st)

\* deduplicate_texts(texts, position_threshold, similarity_threshold)
DedupRun(ts, pt, st) ==
    LET gs == DedupGroups(ts, 1, {}, pt, st)
    IN [g \in 1..Len(gs) |-> ts[Best(ts, gs[g])]]

\* the defaults of the parameters of deduplicate_texts
position_default == 15
similarity_default == <<7, 10>>

\* three reports of one label at one position, with one confidence
OrderExample == <<DemoItem(AB, 0, 0, 92), DemoItem(ABC, 0, 0, 92), DemoItem(ABD, 0, 0, 92)>>

\* reports of several scans at one position
OrderPool == {t \in ItemPool : t.x = 0 /\ t.y = 0}

InitOrder ==
    \E ts \in SeqsUpTo(OrderPool, MaxItems), th \in Thresholds :
        \E p \in Perms(ts) :
            /\ prog = "order"
            /\ pc = "first"
            /\ otexts = ts
            /\ opermuted = p
            /\ othresholds = th
            /\ out_first = <<>>
            /\ out_second = <<>>
            /\ GroupIdle
            /\ DedupIdle
            /\ SimIdle
            /\ JoinIdle
            /\ ScanIdle
            /\ LlmIdle
            /\ PdfIdle
            /\ CodeIdle
            /\ RunIdle

OrderFirst ==
    /\ prog = "order" /\ pc = "first"
    /\ out_first' = DedupRun(otexts, othresholds[1], othresholds[2])
    /\ pc' = "second"
    /\ UNCHANGED <<prog, otexts, opermuted, othresholds, out_second>>
    /\ UNCHANGED <<groupVars, dedupVars, simVars, joinVars, scanVars, llmVars, pdfVars,
                   codeVars, runVars>>

OrderSecond ==
    /\ prog = "order" /\ pc = "second"
    /\ out_second' = DedupRun(opermuted, othresholds[1], othresholds[2])
    /\ pc' = "done"
    /\ UNCHANGED <<prog, otexts, opermuted, othresholds, out_first>>
    /\ UNCHANGED <<groupVars, dedupVars, simVars, joinVars, scanVars, llmVars, pdfVars,
                   codeVars, runVars>>

NextOrder ==
    \/ OrderFirst
    \/ OrderSecond

SpecOrder == InitOrder /\ [][NextOrder]_vars

OrderDone == prog = "order" /\ pc = "done"

\* the labels of a result, as a set of <<text, x, y>>
Labels(out) == {<<out[k].text, out[k].x, out[k].y>> : k \in 1..Len(out)}

(***************************************************************************)
(* C25.  The output of deduplicate_texts depends on the order of its       *)
(* input: there are a list and a permutation of it for which the two       *)
(* calls, with the same thresholds, return different sets of labels.  The  *)
(* list is OrderExample, the thresholds are the defaults.                  *)
(***************************************************************************)
C25_OrderDependent ==
    prog = "order" =>
        \E p \in Perms(OrderExample) :
            Labels(DedupRun(OrderExample, position_default, similarity_default))
                # Labels(DedupRun(p, position_default, similarity_default))

\* a call pair with different numbers of clusters
C25_Witness ==
    /\ OrderDone
    /\ Len(out_first) # Len(out_second)
    /\ Labels(out_first) # Labels(out_second)

(***************************************************************************)
(* C26.  In group_multiline_texts, for a non-empty input, every word index *)
(* is claimed by the end of the first pass, the one with the largest       *)
(* tolerance; the later passes produce no phrase, every phrase carries the *)
(* largest tolerance as y_tolerance, and the result is that of             *)
(* group_multiline_texts_fast with that tolerance and the same             *)
(* x_tolerance, the fields y_tolerance and indices left out.               *)
(***************************************************************************)
FirstPassOver ==
    /\ prog = "gmt"
    /\ input # <<>>
    /\ y_tolerance < y_tolerance_range[1] \/ pc = "done"

NoProvenance(ph) ==
    [text |-> ph.text, confidence |-> ph.confidence, x |-> ph.x, y |-> ph.y,
     width |-> ph.width, height |-> ph.height, word_count |-> ph.word_count]

C26_FirstPassClaimsAll ==
    FirstPassOver =>
        /\ used_indices = 1..Len(input)
        /\ \A k \in 1..Len(all_phrases) :
               all_phrases[k].y_tolerance = y_tolerance_range[1]
        /\ [k \in 1..Len(all_phrases) |-> NoProvenance(all_phrases[k])]
               = FastRun(input, y_tolerance_range[1], x_tolerance)

\* a run of several passes that returned a one-word phrase and a longer one
C26_Witness ==
    /\ prog = "gmt" /\ pc = "done"
    /\ y_tolerance < y_tolerance_range[1]
    /\ \E a, b \in 1..Len(all_phrases) :
           all_phrases[a].word_count = 1 /\ all_phrases[b].word_count > 1

(***************************************************************************)
(* The grouping functions, identify_multiline_room_names and               *)
(* deduplicate_texts side by side: every behaviour is a call of one of     *)
(* them.                                                                   *)
(***************************************************************************)
InitPrograms == InitGroup \/ InitJoin \/ InitDedup

NextPrograms == NextGroup \/ NextJoin \/ NextDedup

SpecPrograms == InitPrograms /\ [][NextPrograms]_vars

(***************************************************************************)
(* C22.  An empty word list is not an error: the line grouper yields zero  *)
(* lines, group_texts_into_phrases, group_multiline_texts and              *)
(* group_multiline_texts_fast return zero phrases, and                     *)
(* identify_multiline_room_names and deduplicate_texts called on an empty  *)
(* list return zero labels; each call runs to its return.                  *)
(***************************************************************************)
C22_EmptyInput ==
    /\ (prog \in {"gmt", "ocr", "auto"} /\ input = <<>>) =>
           /\ lines = <<>>
           /\ all_phrases = <<>>
           /\ used_indices = {}
           /\ LineGrouper(FullScan(Len(input)), input, y_tolerance) = <<>>
           /\ FastRun(input, y_tolerance, x_tolerance) = <<>>
           /\ pc # "done" => ENABLED NextGroup
    /\ (prog = "join" /\ jinput = <<>>) =>
           /\ multiline_rooms = <<>>
           /\ room_parts = <<>>
           /\ pc # "done" => ENABLED NextJoin
    /\ (prog = "dedup" /\ dtexts = <<>>) =>
           /\ groups = <<>>
           /\ deduplicated = <<>>
           /\ (pc # "done" \/ run = 1) => ENABLED NextDedup

\* group_multiline_texts called with an empty list has returned no phrase
C22_Witness ==
    /\ prog = "gmt" /\ pc = "done"
    /\ input = <<>>
    /\ all_phrases = <<>>

(***************************************************************************)
(* is_room_code against the keyword override of the joiner: a column of    *)
(* two aligned phrases whose lower text is drawn from code-like and        *)
(* keyword-like pieces.                                                    *)
(***************************************************************************)
CodeTokens == {<<"T">>, <<"1">>, <<".">>, <<",">>, <<" ">>, RM, ROOM, OFFICE, LAB,
               <<"l", "a", "b">>}

CodeTexts == {Concat(ts) : ts \in SeqsUpTo(CodeTokens, MaxTokens)}

\* the scripts whose joiner has a keyword override
Overriders == {"multi_scan", "fast"}

\* phrase1 and, one line below it, phrase2 with the text under test
CodeColumn(t) ==
    <<[text |-> MECH, x |-> 100, y |-> 200, height |-> 10, confidence |-> 90],
      [text |-> t, x |-> 100, y |-> 215, height |-> 10, confidence |-> 80]>>

InitCode ==
    \E t \in CodeTexts, v \in Overriders :
        /\ prog = "code"
        /\ pc = "start"
        /\ ctext = t
        /\ cversion = v
        /\ is_code = FALSE
        /\ has_keyword = FALSE
        /\ joined = <<>>
        /\ GroupIdle
        /\ DedupIdle
        /\ SimIdle
        /\ JoinIdle
        /\ ScanIdle
        /\ LlmIdle
        /\ PdfIdle
        /\ OrderIdle
        /\ RunIdle

\* the inner-loop test of identify_multiline_room_names on the column
CodeTest ==
    /\ prog = "code" /\ pc = "start"
    /\ is_code' = is_room_code(ctext)
    /\ has_keyword' = \E word \in Keywords(cversion) : IsSubstring(word, Upper(ctext))
    /\ joined' = RoomParts(cversion, CodeColumn(ctext), 1, {},
                           DefaultVertical, DefaultHorizontal)
    /\ pc' = "done"
    /\ UNCHANGED <<prog, ctext, cversion>>
    /\ UNCHANGED <<groupVars, dedupVars, simVars, joinVars, scanVars, llmVars, pdfVars,
                   orderVars, runVars>>

NextCode == CodeTest

SpecCode == InitCode /\ [][NextCode]_vars

\* C27: a text is never both a room code and a keyword text, so the override
\* never fires: the lower phrase is joined exactly when it is not a room
\* code, which is the joiner with the override removed.
C27_CodeExcludesKeyword ==
    (prog = "code" /\ pc = "done") =>
        /\ ~(is_code /\ has_keyword)
        /\ joined = IF is_code THEN <<1>> ELSE <<1, 2>>

\* a T-code below a phrase is left out of the label
C27_Witness ==
    /\ prog = "code" /\ pc = "done"
    /\ ctext = <<"T", "1">>
    /\ is_code
    /\ joined = <<1>>

\* the last request got an answer whose content does not parse as JSON
InvalidContent ==
    /\ outcome # NoResponse
    /\ outcome.error = ""
    /\ outcome.choices = "one"
    /\ outcome.json = "invalid"

\* C30: the loop goes on only after a request exception; content that is not
\* valid JSON ends the call at once with the UNKNOWN fallback; a sleep follows
\* a failed attempt only when another attempt follows, so there are at most
\* max_retries - 1 sleeps; with max_retries = 0 no request is made and the
\* fallback is returned.
C30_RetryOnlyAfterException ==
    prog = "llm" =>
        /\ (pc = "attempt" /\ requests_sent > 0 =>
               /\ outcome.error \in {"ConnectionError", "HTTPError"}
               /\ sleeps = IF requests_sent < max_retries
                           THEN requests_sent ELSE requests_sent - 1)
        /\ (InvalidContent =>
               /\ pc = "returned"
               /\ lresult = ("SignType" :> "UNKNOWN") @@ ("FullMessage" :> ltext)
               /\ ~ENABLED NextLlm)
        /\ (max_retries >= 1 => sleeps <= max_retries - 1)
        /\ (requests_sent >= 1 => sleeps <= requests_sent - 1 \/ pc = "attempt")
        /\ (max_retries = 0 =>
               /\ requests_sent = 0
               /\ sleeps = 0
               /\ (pc = "returned" =>
                      lresult = ("SignType" :> "UNKNOWN") @@ ("FullMessage" :> ltext)))

\* a failed request, one sleep, then an answer that is not JSON
C30_Witness ==
    /\ LlmDone
    /\ InvalidContent
    /\ requests_sent = 2
    /\ sleeps = 1
    /\ lresult = ("SignType" :> "UNKNOWN") @@ ("FullMessage" :> ltext)

(***************************************************************************)
(* process_all_pdfs as a whole: files, pages, passes and candidates.  The  *)
(* candidates of a pass are drawn when they are considered: word indices   *)
(* over the words of the page and the position of the dot.  An exception   *)
(* can leave fitz.open, load_page, get_text, query_llm, draw_rect,         *)
(* hex_to_rgb, draw_circle, draw_page_legend and save; every one of them   *)
(* is caught by the except clause of the file.  The Message field of a     *)
(* schedule entry is left out.                                             *)
(***************************************************************************)
RunWords == {1, 2}

RunKeys == {1, 2}

\* sign_data['SignType'] as query_llm or the cache gives it: the phrases at
\* the first position are exit signs, those at the second are not recognised
SignType(key) == IF key = 1 THEN "EXIT" ELSE "UNKNOWN"

RunCandidates ==
    {[key |-> k, word_indices |-> w, sign_type |-> SignType(k)] :
        k \in RunKeys, w \in (SUBSET RunWords) \ {{}}}

\* parameters st_data and default_color_hex
st_data == ("EXIT" :> "#00FF00")

default_color_hex == "#808080"

\* f"{pdf_file}-{page_num}-{center_x:.2f}-{center_y:.2f}"
RunLocationKey(file, pnum, key) == <<file, pnum, key>>

DigitChars == <<"0", "1", "2", "3", "4", "5", "6", "7", "8", "9">>

\* str(n) for n >= 0
RECURSIVE Decimal(_)
Decimal(n) ==
    IF n < 10 THEN <<DigitChars[n + 1]>>
    ELSE Append(Decimal(n \div 10), DigitChars[(n % 10) + 1])

\* f"{dot_number:04d}": zero-padded to four characters, longer if need be
RECURSIVE PadLeft(_)
PadLeft(t) == IF Len(t) >= 4 THEN t ELSE PadLeft(<<"0">> \o t)

Format04(n) == PadLeft(Decimal(n))

\* "if color_hex in legend: legend[color_hex][0] += 1 else: legend[color_hex] = [1, sign_type]"
LegendAdd(legend, color_hex, sign_type) ==
    IF color_hex \in DOMAIN legend
    THEN [legend EXCEPT ![color_hex] = <<@[1] + 1, @[2]>>]
    ELSE Put(legend, color_hex, <<1, sign_type>>)

\* the candidate has no word used in an earlier pass or in this pass
RunFree(c) ==
    /\ c.word_indices \cap page_used_word_indices = {}
    /\ c.word_indices \cap run_pass_used = {}

InitRun ==
    \E counts \in SeqsUpTo(0..MaxPages, MaxFiles) :
        /\ prog = "run"
        /\ pc = "file"
        /\ page_counts = counts
        /\ opened = 1
        /\ page_num = 0
        /\ pass = 0
        /\ considered = 0
        /\ candidate = <<>>
        /\ dot_number = 1
        /\ message_schedule = <<>>
        /\ legend_data = <<>>
        /\ page_legend_data = <<>>
        /\ dots = <<>>
        /\ run_locations = {}
        /\ page_used_word_indices = {}
        /\ run_pass_used = {}
        /\ processed = {}
        /\ failed = {}
        /\ unopened = {}
        /\ saved = {}
        /\ GroupIdle
        /\ DedupIdle
        /\ SimIdle
        /\ JoinIdle
        /\ ScanIdle
        /\ LlmIdle
        /\ PdfIdle
        /\ OrderIdle
        /\ CodeIdle

\* "for pdf_file in os.listdir(map_folder)": fitz.open, page_legend_data = {}
RunOpen ==
    /\ prog = "run" /\ pc = "file" /\ opened <= Len(page_counts)
    /\ page_legend_data' = <<>>
    /\ page_num' = 0
    /\ pc' = IF page_counts[opened] = 0 THEN "save" ELSE "page"
    /\ UNCHANGED <<prog, page_counts, opened, pass, considered, candidate, dot_number,
                   message_schedule, legend_data, dots, run_locations,
                   page_used_word_indices, run_pass_used, processed, failed, unopened,
                   saved>>
    /\ UNCHANGED <<groupVars, dedupVars, simVars, joinVars, scanVars, llmVars, pdfVars,
                   orderVars, codeVars>>

\* fitz.open raises: "except Exception" of the file, on to the next file
RunOpenError ==
    /\ prog = "run" /\ pc = "file" /\ opened <= Len(page_counts)
    /\ unopened' = unopened \cup {opened}
    /\ opened' = opened + 1
    /\ UNCHANGED <<prog, pc, page_counts, page_num, pass, considered, candidate,
                   dot_number, message_schedule, legend_data, page_legend_data, dots,
                   run_locations, page_used_word_indices, run_pass_used, processed,
                   failed, saved>>
    /\ UNCHANGED <<groupVars, dedupVars, simVars, joinVars, scanVars, llmVars, pdfVars,
                   orderVars, codeVars>>

\* load_page, get_text, the page's legend and used set, the first pass begins
RunLoadPage ==
    /\ prog = "run" /\ pc = "page"
    /\ page_legend_data' = Put(page_legend_data, page_num, <<>>)
    /\ page_used_word_indices' = {}
    /\ pass' = 1
    /\ run_pass_used' = {}
    /\ considered' = 0
    /\ candidate' = <<>>
    /\ pc' = "cand"
    /\ UNCHANGED <<prog, page_counts, opened, page_num, dot_number, message_schedule,
                   legend_data, dots, run_locations, processed, failed, unopened, saved>>
    /\ UNCHANGED <<groupVars, dedupVars, simVars, joinVars, scanVars, llmVars, pdfVars,
                   orderVars, codeVars>>

\* a candidate with a word used in this or an earlier pass: continue
RunSkipUsed ==
    /\ prog = "run" /\ pc = "cand" /\ considered < MaxCandidates
    /\ \E c \in RunCandidates :
          /\ ~RunFree(c)
          /\ candidate' = c
    /\ considered' = considered + 1
    /\ UNCHANGED <<prog, pc, page_counts, opened, page_num, pass, dot_number,
                   message_schedule, legend_data, page_legend_data, dots, run_locations,
                   page_used_word_indices, run_pass_used, processed, failed, unopened,
                   saved>>
    /\ UNCHANGED <<groupVars, dedupVars, simVars, joinVars, scanVars, llmVars, pdfVars,
                   orderVars, codeVars>>

RunSkipDuplicateMutMarks ==
    \* bug: the words of a skipped duplicate are marked as used
    /\ prog = "run" /\ pc = "cand" /\ considered < MaxCandidates
    /\ \E c \in RunCandidates :
          /\ RunFree(c)
          /\ RunLocationKey(opened, page_num, c.key) \in run_locations
          /\ candidate' = c
          /\ page_used_word_indices' = page_used_word_indices \cup c.word_indices
    /\ considered' = considered + 1
    /\ UNCHANGED <<prog, pc, page_counts, opened, page_num, pass, dot_number,
                   message_schedule, legend_data, page_legend_data, dots, run_locations,
                   run_pass_used, processed, failed, unopened, saved>>
    /\ UNCHANGED <<groupVars, dedupVars, simVars, joinVars, scanVars, llmVars, pdfVars,
                   orderVars, codeVars>>

\* "if location_key in annotated_locations: continue"
RunSkipDuplicate ==
    /\ prog = "run" /\ pc = "cand" /\ considered < MaxCandidates
    /\ \E c \in RunCandidates :
          /\ RunFree(c)
          /\ RunLocationKey(opened, page_num, c.key) \in run_locations
          /\ candidate' = c
    /\ considered' = considered + 1
    /\ UNCHANGED <<prog, pc, page_counts, opened, page_num, pass, dot_number,
                   message_schedule, legend_data, page_legend_data, dots, run_locations,
                   page_used_word_indices, run_pass_used, processed, failed, unopened,
                   saved>>
    /\ UNCHANGED <<groupVars, dedupVars, simVars, joinVars, scanVars, llmVars, pdfVars,
                   orderVars, codeVars>>

\* the dot is drawn and the tracking information is updated
RunAnnotate ==
    /\ prog = "run" /\ pc = "cand" /\ considered < MaxCandidates
    /\ \E c \in RunCandidates :
          LET location_key == RunLocationKey(opened, page_num, c.key)
              sign_type == c.sign_type
              color_hex == Get(st_data, sign_type, default_color_hex)
          IN /\ RunFree(c)
             /\ location_key \notin run_locations
             /\ candidate' = c
             /\ dots' = Append(dots, location_key)
             /\ message_schedule' =
                    Append(message_schedule,
                           [SignType |-> sign_type, Number |-> Format04(dot_number),
                            PDFPage |-> page_num + 1, PDFFile |-> opened])
             /\ dot_number' = dot_number + 1
             /\ run_locations' = run_locations \cup {location_key}
             /\ legend_data' = LegendAdd(legend_data, color_hex, sign_type)
             /\ page_legend_data' =
                    [page_legend_data EXCEPT
                        ![page_num] = LegendAdd(@, color_hex, sign_type)]
             /\ run_pass_used' = run_pass_used \cup c.word_indices
             /\ page_used_word_indices' = page_used_word_indices \cup c.word_indices
    /\ considered' = considered + 1
    /\ UNCHANGED <<prog, pc, page_counts, opened, page_num, pass, processed, failed,
                   unopened, saved>>
    /\ UNCHANGED <<groupVars, dedupVars, simVars, joinVars, scanVars, llmVars, pdfVars,
                   orderVars, codeVars>>

\* the candidates of the pass are exhausted, the next tolerance begins
RunNextPass ==
    /\ prog = "run" /\ pc = "cand" /\ pass < MaxPasses
    /\ pass' = pass + 1
    /\ run_pass_used' = {}
    /\ considered' = 0
    /\ UNCHANGED <<prog, pc, page_counts, opened, page_num, candidate, dot_number,
                   message_schedule, legend_data, page_legend_data, dots, run_locations,
                   page_used_word_indices, processed, failed, unopened, saved>>
    /\ UNCHANGED <<groupVars, dedupVars, simVars, joinVars, scanVars, llmVars, pdfVars,
                   orderVars, codeVars>>

\* after the last pass: remaining text, the page legend, on to the next page
RunEndPage ==
    /\ prog = "run" /\ pc = "cand" /\ pass = MaxPasses
    /\ processed' = processed \cup {<<opened, page_num>>}
    /\ IF page_num + 1 < page_counts[opened]
       THEN page_num' = page_num + 1 /\ pc' = "page"
       ELSE page_num' = page_num /\ pc' = "save"
    /\ UNCHANGED <<prog, page_counts, opened, pass, considered, candidate, dot_number,
                   message_schedule, legend_data, page_legend_data, dots, run_locations,
                   page_used_word_indices, run_pass_used, failed, unopened, saved>>
    /\ UNCHANGED <<groupVars, dedupVars, simVars, joinVars, scanVars, llmVars, pdfVars,
                   orderVars, codeVars>>

\* an exception while a page is in work: "except Exception" of the file
RunPageError ==
    /\ prog = "run" /\ pc \in {"page", "cand"}
    /\ failed' = failed \cup {<<opened, page_num>>}
    /\ opened' = opened + 1
    /\ pc' = "file"
    /\ UNCHANGED <<prog, page_counts, page_num, pass, considered, candidate, dot_number,
                   message_schedule, legend_data, page_legend_data, dots, run_locations,
                   page_used_word_indices, run_pass_used, processed, unopened, saved>>
    /\ UNCHANGED <<groupVars, dedupVars, simVars, joinVars, scanVars, llmVars, pdfVars,
                   orderVars, codeVars>>

\* pdf_document.save(new_pdf_path)
RunSave ==
    /\ prog = "run" /\ pc = "save"
    /\ saved' = saved \cup {opened}
    /\ opened' = opened + 1
    /\ pc' = "file"
    /\ UNCHANGED <<prog, page_counts, page_num, pass, considered, candidate, dot_number,
                   message_schedule, legend_data, page_legend_data, dots, run_locations,
                   page_used_word_indices, run_pass_used, processed, failed, unopened>>
    /\ UNCHANGED <<groupVars, dedupVars, simVars, joinVars, scanVars, llmVars, pdfVars,
                   orderVars, codeVars>>

\* save raises: "except Exception" of the file
RunSaveError ==
    /\ prog = "run" /\ pc = "save"
    /\ opened' = opened + 1
    /\ pc' = "file"
    /\ UNCHANGED <<prog, page_counts, page_num, pass, considered, candidate, dot_number,
                   message_schedule, legend_data, page_legend_data, dots, run_locations,
                   page_used_word_indices, run_pass_used, processed, failed, unopened,
                   saved>>
    /\ UNCHANGED <<groupVars, dedupVars, simVars, joinVars, scanVars, llmVars, pdfVars,
                   orderVars, codeVars>>

\* "return dot_number, found_phrases, ..."
RunReturn ==
    /\ prog = "run" /\ pc = "file" /\ opened > Len(page_counts)
    /\ pc' = "done"
    /\ UNCHANGED runVars
    /\ UNCHANGED prog
    /\ UNCHANGED <<groupVars, dedupVars, simVars, joinVars, scanVars, llmVars, pdfVars,
                   orderVars, codeVars>>

NextRun ==
    \/ RunOpen
    \/ RunOpenError
    \/ RunLoadPage
    \/ RunSkipUsed
    \/ RunSkipDuplicate
    \/ RunAnnotate
    \/ RunNextPass
    \/ RunEndPage
    \/ RunPageError
    \/ RunSave
    \/ RunSaveError
    \/ RunReturn

SpecRun == InitRun /\ [][NextRun]_vars

\* the number k as the schedule writes it while k < 10000
FourDigits(k) ==
    <<DigitChars[((k \div 1000) % 10) + 1], DigitChars[((k \div 100) % 10) + 1],
      DigitChars[((k \div 10) % 10) + 1], DigitChars[(k % 10) + 1]>>

\* the counts of a legend, summed over its colours
RECURSIVE LegendTotal(_)
LegendTotal(legend) ==
    IF DOMAIN legend = {} THEN 0
    ELSE LET c == CHOOSE c \in DOMAIN legend : TRUE
         IN legend[c][1] + LegendTotal([d \in DOMAIN legend \ {c} |-> legend[d]])

\* the numbering of the run at one point of it
Numbered ==
    /\ Len(message_schedule) = dot_number - 1
    /\ \A k \in 1..Len(message_schedule) : message_schedule[k].Number = FourDigits(k)
    /\ LegendTotal(legend_data) = dot_number - 1
    /\ Len(dots) = dot_number - 1
    /\ \A a, b \in 1..Len(dots) : a # b => dots[a] # dots[b]
    /\ \A k \in 1..Len(dots) :
           /\ dots[k][1] = message_schedule[k].PDFFile
           /\ dots[k][2] + 1 = message_schedule[k].PDFPage

\* the step considers a free candidate whose location key is already annotated
SkipsDuplicate ==
    /\ pc = "cand" /\ pc' = "cand"
    /\ considered' = considered + 1
    /\ candidate' # <<>>
    /\ candidate'.word_indices \cap (page_used_word_indices \cup run_pass_used) = {}
    /\ <<opened, page_num, candidate'.key>> \in run_locations

\* C29: at every point of a run, over passes, pages and files, aborted
\* files included, the schedule numbers are 1..n in order, n = dot_number - 1
\* = len(message_schedule), the global legend counts sum to n, no two dots
\* share a location key, and skipping a duplicate location changes neither
\* dot_number, the schedule, the legends nor the used-word sets.
C29_Numbering ==
    /\ [](prog = "run" => Numbered)
    /\ [][(prog = "run" /\ SkipsDuplicate) =>
             UNCHANGED <<dot_number, message_schedule, legend_data, page_legend_data,
                         page_used_word_indices, run_pass_used>>]_vars

\* a duplicate is skipped in a later file, after a file with a dot on it was
\* given up because of an exception
C29_Witness ==
    /\ prog = "run" /\ pc = "cand"
    /\ candidate # <<>>
    /\ candidate.word_indices \cap (page_used_word_indices \cup run_pass_used) = {}
    /\ <<opened, page_num, candidate.key>> \in run_locations
    /\ \E u \in failed : \E k \in 1..Len(message_schedule) :
           /\ message_schedule[k].PDFFile = u[1]
           /\ u[1] < opened

\* C21: a failure in one page skips only that page: when the run returns,
\* every page of every file that could be opened has either failed itself or
\* been processed.
C21_PageIsolation ==
    (prog = "run" /\ pc = "done") =>
        \A f \in (1..Len(page_counts)) \ unopened :
            \A p \in 0..(page_counts[f] - 1) :
                <<f, p>> \in processed \/ <<f, p>> \in failed

(***************************************************************************)
(* C23.  The order in which one Automapper pass considers its candidates.  *)
(***************************************************************************)
\* the pass is applying its candidates; those before cand have been considered
Applying == prog = "auto" /\ pc = "apply"

\* all candidates of the pass have been considered
PassOver == Applying /\ cand > Len(potential_phrases)

\* candidates are runs of 1 to 5 consecutive words of a line, ordered by
\* decreasing word count, then line index, then position in the line
LongestFirst ==
    /\ \A k \in 1..Len(potential_phrases) :
           LET c == potential_phrases[k]
           IN /\ c.length \in 1..5
              /\ c.line_index \in 1..Len(lines)
              /\ c.word_indices =
                     SubSeq(lines[c.line_index], c.position_in_line,
                            c.position_in_line + c.length - 1)
    /\ \A j, k \in 1..Len(potential_phrases) :
           j < k =>
               LET c == potential_phrases[j]
                   d == potential_phrases[k]
               IN \/ c.length > d.length
                  \/ c.length = d.length /\ c.line_index < d.line_index
                  \/ /\ c.length = d.length /\ c.line_index = d.line_index
                     /\ c.position_in_line < d.position_in_line

\* candidate k was accepted in this pass
Accepted(k) ==
    \E a \in 1..Len(all_phrases) :
        /\ all_phrases[a].indices = potential_phrases[k].word_indices
        /\ all_phrases[a].y_tolerance = y_tolerance

\* no accepted phrase has a word of another accepted phrase, and none is a
\* proper sub-run of a longer candidate that was accepted
AcceptedFree ==
    /\ \A a, b \in 1..Len(all_phrases) :
           a # b => Range(all_phrases[a].indices) \cap Range(all_phrases[b].indices) = {}
    /\ \A j, k \in 1..(cand - 1) :
           (/\ j < k
            /\ Accepted(k)
            /\ potential_phrases[j].line_index = potential_phrases[k].line_index
            /\ Range(potential_phrases[k].word_indices)
                   \subseteq Range(potential_phrases[j].word_indices))
           => ~Accepted(j)

\* no word of line l was claimed when the pass began
UnclaimedAtStart(l) ==
    Range(lines[l]) \cap (used_indices \ pass_used_word_indices) = {}

\* line l was annotated as one phrase in this pass
AsOnePhrase(l) ==
    \E a \in 1..Len(all_phrases) :
        /\ all_phrases[a].indices = lines[l]
        /\ all_phrases[a].y_tolerance = y_tolerance

\* the dot location of line l as one phrase belongs to another annotation
KeyTaken(l) ==
    \E a \in 1..Len(all_phrases) :
        /\ all_phrases[a].indices # lines[l]
        /\ <<all_phrases[a].x + all_phrases[a].x + all_phrases[a].width,
              all_phrases[a].y>> =
               LocationKey(UnionBox([k \in 1..Len(lines[l]) |-> texts[lines[l][k]]]))

\* C23, original statement: candidates are considered longest first, then by
\* line index, then by position; a candidate is accepted only if none of
\* its words is claimed; an accepted phrase is never a proper sub-run of an
\* accepted longer candidate; and a line of at most 5 unclaimed words is
\* annotated as a single phrase.
C23_Original ==
    /\ Applying => LongestFirst /\ AcceptedFree
    /\ PassOver =>
           \A l \in 1..Len(lines) :
               (Len(lines[l]) <= 5 /\ UnclaimedAtStart(l)) => AsOnePhrase(l)

\* C23, amended: as the original statement, but a line of at most 5
\* unclaimed words is annotated as a single phrase unless the dot location
\* of that phrase is already annotated.
C23_LongestFirst ==
    /\ Applying => LongestFirst /\ AcceptedFree
    /\ PassOver =>
           \A l \in 1..Len(lines) :
               (Len(lines[l]) <= 5 /\ UnclaimedAtStart(l)) =>
                   AsOnePhrase(l) \/ (KeyTaken(l) /\ ~AsOnePhrase(l))

\* a line of two unclaimed words annotated as one phrase, and another line
\* of the same pass
C23_Witness ==
    /\ PassOver
    /\ Len(lines) >= 2
    /\ \E l \in 1..Len(lines) :
           /\ Len(lines[l]) = 2
           /\ UnclaimedAtStart(l)
           /\ AsOnePhrase(l)

====
